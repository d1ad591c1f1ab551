------------------------- MODULE SubscriptionsProofs -------------------------
(***************************************************************************)
(* Proofs about Subscriptions: for every set of keys, methods and tasks,   *)
(* and for all bounds, however deep the calls of the Runner are nested.    *)
(***************************************************************************)
EXTENDS Subscriptions, SequenceTheorems, WellFoundedInduction, TLAPS

-----------------------------------------------------------------------------
(* The next entry of a list.                                               *)

Less == {p \in Nat \X Nat : p[1] < p[2]}

\* Every set of numbers has a smallest one.
LEMMA Smallest ==
  ASSUME NEW T \in SUBSET Nat, T # {}
  PROVE  \E n \in T : \A m \in T : n <= m
<1>1. IsWellFoundedOn(Less, Nat)
  BY NatLessThanWellFounded DEF Less, OpToRel
<1>2. PICK n \in T : \A m \in T : ~(<<m, n>> \in Less)
  BY <1>1, WFMin
<1>3. ASSUME NEW m \in T PROVE n <= m
  <2>1. n \in Nat /\ m \in Nat
    OBVIOUS
  <2>2. SUFFICES ASSUME m < n PROVE FALSE
    BY <2>1
  <2>3. <<m, n>> \in Less
    BY <2>1, <2>2 DEF Less
  <2> QED BY <1>2, <2>3
<1> QED BY <1>3

\* After returns an entry of the list, or End.
LEMMA AfterIsListed ==
  ASSUME NEW n \in Nat, NEW S \in SUBSET Nat
  PROVE  After(n, S) \in S \cup {End}
<1>1. CASE \E m \in S : m > n
  <2> DEFINE T == {m \in S : m > n}
  <2>1. T \in SUBSET Nat /\ T # {}
    BY <1>1
  <2>2. PICK m \in T : \A o \in T : m <= o
    BY <2>1, Smallest
  <2>3. m \in S /\ m > n /\ \A o \in S : o > n => m <= o
    BY <2>2
  <2> QED BY <1>1, <2>3 DEF After
<1>2. CASE ~\E m \in S : m > n
  BY <1>2 DEF After
<1> QED BY <1>1, <1>2

-----------------------------------------------------------------------------
(* Sequences: the call stack and the queue.                                *)

LEMMA Pushed ==
  ASSUME NEW S, NEW s \in Seq(S), NEW f \in S
  PROVE  /\ Append(s, f) \in Seq(S)
         /\ Len(Append(s, f)) = Len(s) + 1
         /\ Append(s, f)[Len(s) + 1] = f
         /\ \A i \in 1..Len(s) : Append(s, f)[i] = s[i]
OBVIOUS

LEMMA Popped ==
  ASSUME NEW S, NEW s \in Seq(S), s # << >>
  PROVE  /\ SubSeq(s, 1, Len(s) - 1) \in Seq(S)
         /\ Len(SubSeq(s, 1, Len(s) - 1)) = Len(s) - 1
         /\ \A i \in 1..Len(s) - 1 : SubSeq(s, 1, Len(s) - 1)[i] = s[i]
<1>1. 1 \in Int /\ Len(s) \in Nat \ {0} /\ Len(s) - 1 \in Int
  OBVIOUS
<1>2. \A i \in 1..Len(s) - 1 : s[i] \in S
  OBVIOUS
<1> DEFINE n == Len(s) - 1
<1>3. /\ SubSeq(s, 1, n) \in Seq(S)
      /\ Len(SubSeq(s, 1, n)) = IF 1 <= n THEN n - 1 + 1 ELSE 0
      /\ \A i \in 1..n - 1 + 1 : SubSeq(s, 1, n)[i] = s[1 + i - 1]
  <2>1. 1 \in Int /\ n \in Int /\ \A i \in 1..n : s[i] \in S
    BY <1>1, <1>2
  <2> HIDE DEF n
  <2> QED BY <2>1, SubSeqProperties
<1>4. n - 1 + 1 = n /\ \A i \in 1..n : 1 + i - 1 = i
  BY <1>1
<1> QED BY <1>1, <1>3, <1>4

LEMMA TopChanged ==
  ASSUME NEW S, NEW s \in Seq(S), s # << >>, NEW f \in S
  PROVE  /\ [s EXCEPT ![Len(s)] = f] \in Seq(S)
         /\ Len([s EXCEPT ![Len(s)] = f]) = Len(s)
         /\ [s EXCEPT ![Len(s)] = f][Len(s)] = f
         /\ \A i \in 1..Len(s) : i # Len(s) => [s EXCEPT ![Len(s)] = f][i] = s[i]
OBVIOUS

LEMMA Taken ==
  ASSUME NEW S, NEW s \in Seq(S), s # << >>
  PROVE  /\ Tail(s) \in Seq(S) /\ Head(s) \in S
         /\ Head(s) = s[1]
         /\ Len(s) \in Nat \ {0} /\ Len(Tail(s)) = Len(s) - 1
         /\ \A i \in 1..Len(Tail(s)) : Tail(s)[i] = s[i + 1]
OBVIOUS

-----------------------------------------------------------------------------
(* Types.                                                                  *)

\* The members of Frame and Event that the actions make.
LEMMA CallIsFrame ==
  ASSUME NEW kind \in {"update", "request", "event", "flush", "drain", "destroy", "set"},
         NEW pc \in {"call", "step", "return"}
  PROVE  Call(kind, pc) \in Frame
BY DEF Call, Frame, End

LEMMA FrameChanged ==
  ASSUME NEW f \in Frame
  PROVE  /\ \A r \in 0..2 : [f EXCEPT !.result = r] \in Frame
         /\ \A p \in {"call", "step", "return"} : [f EXCEPT !.pc = p] \in Frame
         /\ [f EXCEPT !.kind = "drain"] \in Frame
         /\ \A n \in Entry \cup {End} :
              [f EXCEPT !.id = n] \in Frame /\ [f EXCEPT !.next = n] \in Frame
         /\ \A K \in SUBSET Key : [f EXCEPT !.keys = K] \in Frame
         /\ \A n \in Nat : [f EXCEPT !.number = n] \in Frame
BY DEF Frame

\* The call on top, and what is left when it returns or is changed.
LEMMA TopIs ==
  ASSUME stack \in Seq(Frame), stack # << >>
  PROVE  /\ Len(stack) \in Nat \ {0}
         /\ Top \in Frame
         /\ Below \in Seq(Frame)
         /\ \A f \in Frame : [stack EXCEPT ![Len(stack)] = f] \in Seq(Frame)
<1>1. Len(stack) \in Nat \ {0}
  OBVIOUS
<1> QED BY <1>1, Popped, TopChanged DEF Top, Below

\* WillReturn changes at most the result of the call on top.
LEMMA WillReturnIs ==
  ASSUME NEW t, NEW r \in 1..2, stack \in Seq(Frame)
  PROVE  /\ WillReturn(t, r) \in Seq(Frame)
         /\ Len(WillReturn(t, r)) = Len(stack)
         /\ \A i \in 1..Len(stack) : WillReturn(t, r)[i] =
              IF t = Runner /\ i = Len(stack) /\ stack[i].result < r
              THEN [stack[i] EXCEPT !.result = r] ELSE stack[i]
<1>1. CASE InCallback(t) /\ Top.result < r
  <2>1. stack # << >> /\ t = Runner
    BY <1>1 DEF InCallback
  <2>2. Len(stack) \in Nat \ {0} /\ Top \in Frame /\ Top = stack[Len(stack)]
    BY <2>1, TopIs DEF Top
  <2> DEFINE f == [Top EXCEPT !.result = r]
  <2>3. f \in Frame
    <3>1. r \in 0..2
      OBVIOUS
    <3>2. \A q \in 0..2 : [Top EXCEPT !.result = q] \in Frame
      BY <2>2, FrameChanged
    <3> QED BY <3>1, <3>2
  <2>4. WillReturn(t, r) = [stack EXCEPT ![Len(stack)] = f]
    BY <1>1, <2>2 DEF WillReturn
  <2> HIDE DEF f
  <2>5. /\ [stack EXCEPT ![Len(stack)] = f] \in Seq(Frame)
        /\ Len([stack EXCEPT ![Len(stack)] = f]) = Len(stack)
        /\ [stack EXCEPT ![Len(stack)] = f][Len(stack)] = f
        /\ \A i \in 1..Len(stack) : i # Len(stack) => [stack EXCEPT ![Len(stack)] = f][i] = stack[i]
    BY <2>1, <2>3, TopChanged
  <2>6. ASSUME NEW i \in 1..Len(stack)
        PROVE  WillReturn(t, r)[i] =
                 IF t = Runner /\ i = Len(stack) /\ stack[i].result < r
                 THEN [stack[i] EXCEPT !.result = r] ELSE stack[i]
    BY <1>1, <2>1, <2>2, <2>4, <2>5 DEF f
  <2> QED BY <2>4, <2>5, <2>6
<1>2. CASE ~(InCallback(t) /\ Top.result < r)
  <2>1. WillReturn(t, r) = stack
    BY <1>2 DEF WillReturn
  <2>2. ASSUME NEW i \in 1..Len(stack), t = Runner, i = Len(stack) PROVE ~(stack[i].result < r)
    <3>1. stack # << >>
      BY <2>2
    <3> QED BY <1>2, <2>2, <3>1 DEF InCallback, Top
  <2> QED BY <2>1, <2>2
<1> QED BY <1>1, <1>2

\* What Serving returns.
LEMMA ServingIs ==
  ASSUME NEW m, ListsType
  PROVE  Serving(m) \in serverrpc_list \cup {End} /\ Serving(m) \in Entry \cup {End}
<1> DEFINE S == {n \in serverrpc_list : method[n] = m}
<1>1. S \in SUBSET Nat /\ End \in Nat
  <2>1. Entry \subseteq Nat
    BY SubscriptionsAssumption DEF Entry
  <2> QED BY <2>1 DEF ListsType, End
<1>2. After(End, S) \in S \cup {End}
  BY <1>1, AfterIsListed
<1> QED BY <1>2 DEF Serving, ListsType, Entry

\* The types hold at first.
LEMMA InitType == Init => TypeOK
<1> SUFFICES ASSUME Init PROVE TypeOK
  OBVIOUS
<1>1. (CHOOSE m \in Method : TRUE) \in Method
  BY SubscriptionsAssumption
<1>2. 0 \in 0..MaxEntries
  BY SubscriptionsAssumption
<1>3. NetworkType
  BY DEF Init, NetworkType
<1>4. ListsType
  BY <1>1, <1>2 DEF Init, ListsType
<1>5. << >> \in Seq(Event) /\ << >> \in Seq(Frame) /\ Len(<< >>) = 0
  OBVIOUS
<1>6. RunnerType
  <2>1. alive \in BOOLEAN /\ fault \in BOOLEAN /\ queue = << >> /\ stack = << >>
    BY Zenon DEF Init
  <2>2. 0 <= QueueSize
    BY SubscriptionsAssumption
  <2> QED BY <1>5, <2>1, <2>2 DEF RunnerType
<1>7. HistoryType
  BY DEF Init, HistoryType
<1> QED BY <1>3, <1>4, <1>6, <1>7 DEF TypeOK

\* The connection and the topics.
LEMMA NetworkTypeStep == NetworkType /\ [Next]_vars => NetworkType'
<1> SUFFICES ASSUME NetworkType, [Next]_vars PROVE NetworkType'
  OBVIOUS
<1> USE DEF NetworkType, network, TopicAdded, TopicRemoved
<1>1. CASE Environment
  BY <1>1 DEF Environment, MqttConnected, MqttDisconnected, MqttData, MqttUpdate, MqttRequest
<1>2. CASE Api
  BY <1>2 DEF Api, tbcmh_attributes_subscribe, tbcmh_attributes_unsubscribe,
              tbcmh_serverrpc_subscribe, tbcmh_serverrpc_unsubscribe
<1>3. CASE Control
  BY <1>3 DEF Control, tbcmh_connect, tbcmh_disconnect, tbcmh_destroy, tbcmh_init
<1>4. CASE Run
  BY <1>4 DEF Run, tbcm_disconnect, FinishDisconnect, FinishDestroy, OnConnected, Resubscribe,
              OnDisconnected, ReturnFromEvent, OnUpdate, WalkOn, ReturnFromUpdate, OnRequest,
              ReturnFromRequest
<1>5. CASE UNCHANGED vars
  BY <1>5 DEF vars
<1> QED BY <1>1, <1>2, <1>3, <1>4, <1>5 DEF Next

\* The lists.
LEMMA ListsTypeStep == ListsType /\ [Next]_vars => ListsType'
<1> SUFFICES ASSUME ListsType, [Next]_vars PROVE ListsType'
  OBVIOUS
<1> USE DEF ListsType, lists
<1>1. CASE Environment
  BY <1>1 DEF Environment, MqttConnected, MqttDisconnected, MqttData, MqttUpdate, MqttRequest
<1>2. CASE Api
  <2>1. ASSUME NEW t, NEW K \in Interests, tbcmh_attributes_subscribe(t, K) PROVE ListsType'
    <3>1. K \in SUBSET Key
      BY SubscriptionsAssumption
    <3>2. made.attributes + 1 \in Entry => made.attributes + 1 \in 0..MaxEntries
      BY SubscriptionsAssumption DEF Entry
    <3> QED BY <2>1, <3>1, <3>2 DEF tbcmh_attributes_subscribe
  <2>2. ASSUME NEW t, NEW id, tbcmh_attributes_unsubscribe(t, id) PROVE ListsType'
    BY <2>2 DEF tbcmh_attributes_unsubscribe
  <2>3. ASSUME NEW t, NEW m \in Method, tbcmh_serverrpc_subscribe(t, m) PROVE ListsType'
    <3>1. made.serverrpc + 1 \in 0..MaxEntries /\ made.serverrpc + 1 \in Entry
      BY <2>3, SubscriptionsAssumption DEF tbcmh_serverrpc_subscribe, Entry
    <3> QED BY <2>3, <3>1 DEF tbcmh_serverrpc_subscribe
  <2>4. ASSUME NEW t, NEW m, tbcmh_serverrpc_unsubscribe(t, m) PROVE ListsType'
    BY <2>4 DEF tbcmh_serverrpc_unsubscribe
  <2> QED BY <1>2, <2>1, <2>2, <2>3, <2>4 DEF Api
<1>3. CASE Control
  BY <1>3 DEF Control, tbcmh_connect, tbcmh_disconnect, tbcmh_destroy, tbcmh_init
<1>4. CASE Run
  BY <1>4 DEF Run, tbcm_disconnect, FinishDisconnect, FinishDestroy, OnConnected,
              OnDisconnected, ReturnFromEvent, OnUpdate, WalkOn, ReturnFromUpdate, OnRequest,
              ReturnFromRequest
<1>5. CASE UNCHANGED vars
  BY <1>5 DEF vars
<1> QED BY <1>1, <1>2, <1>3, <1>4, <1>5 DEF Next

\* The history.
LEMMA HistoryTypeStep == TypeOK /\ [Next]_vars => HistoryType'
<1> SUFFICES ASSUME TypeOK, [Next]_vars PROVE HistoryType'
  OBVIOUS
<1>0. HistoryType
  BY DEF TypeOK
<1> USE DEF HistoryType, history
<1>1. CASE Environment
  <2>1. CASE MqttConnected
    <3>1. missed' \in BOOLEAN
      BY <2>1 DEF MqttConnected
    <3> QED BY <1>0, <2>1, <3>1 DEF MqttConnected
  <2>2. CASE MqttDisconnected
    BY <1>0, <2>2 DEF MqttDisconnected
  <2>3. ASSUME NEW topic, NEW e, MqttData(topic, e) PROVE HistoryType'
    BY <1>0, <2>3 DEF MqttData
  <2> QED BY <1>1, <2>1, <2>2, <2>3 DEF Environment, MqttUpdate, MqttRequest
<1>2. CASE Api
  BY <1>0, <1>2 DEF Api, tbcmh_attributes_subscribe, tbcmh_attributes_unsubscribe,
              tbcmh_serverrpc_subscribe, tbcmh_serverrpc_unsubscribe
<1>3. CASE Control
  BY <1>0, <1>3 DEF Control, tbcmh_connect, tbcmh_disconnect, tbcmh_destroy, tbcmh_init
<1>4. CASE Run
  BY <1>0, <1>4 DEF Run, tbcm_disconnect, FinishDisconnect, FinishDestroy, OnConnected,
              OnDisconnected, ReturnFromEvent, OnUpdate, WalkOn, ReturnFromUpdate, OnRequest,
              ReturnFromRequest
<1>5. CASE UNCHANGED vars
  BY <1>0, <1>5 DEF vars
<1> QED BY <1>1, <1>2, <1>3, <1>4, <1>5 DEF Next

-----------------------------------------------------------------------------
(* Types of the queue and of the call stack.                               *)

QueueType == queue \in Seq(Event) /\ Len(queue) <= QueueSize
StackType == stack \in Seq(Frame)

\* A full queue drops an event, another one grows by it.
LEMMA PostIs ==
  ASSUME QueueType, NEW e \in Event, Post(e)
  PROVE  QueueType'
<1>1. queue \in Seq(Event) /\ Len(queue) \in Nat /\ QueueSize \in Nat
  BY SubscriptionsAssumption DEF QueueType
<1>2. CASE Len(queue) < QueueSize
  <2>1. queue' = Append(queue, e)
    BY <1>2 DEF Post
  <2>2. Append(queue, e) \in Seq(Event) /\ Len(Append(queue, e)) = Len(queue) + 1
    BY <1>1, Pushed
  <2> QED BY <1>1, <1>2, <2>1, <2>2 DEF QueueType
<1>3. CASE ~(Len(queue) < QueueSize)
  BY <1>3 DEF Post, QueueType
<1> QED BY <1>2, <1>3

LEMMA ReceiveIs ==
  ASSUME QueueType, NEW type, Receive(type)
  PROVE  /\ QueueType'
         /\ Head(queue) \in Event /\ Head(queue).type = type
         /\ Head(queue) = queue[1]
         /\ Len(queue) \in Nat \ {0} /\ Len(queue') = Len(queue) - 1
         /\ \A i \in 1..Len(queue') : queue'[i] = queue[i + 1]
<1>1. queue \in Seq(Event) /\ queue # << >> /\ QueueSize \in Nat /\ queue' = Tail(queue)
  BY SubscriptionsAssumption DEF QueueType, Receive
<1>2. /\ Tail(queue) \in Seq(Event) /\ Head(queue) \in Event
      /\ Head(queue) = queue[1]
      /\ Len(queue) \in Nat \ {0} /\ Len(Tail(queue)) = Len(queue) - 1
      /\ \A i \in 1..Len(Tail(queue)) : Tail(queue)[i] = queue[i + 1]
  BY <1>1, Taken
<1> QED BY <1>1, <1>2 DEF QueueType, Receive

\* What the messages carry.
LEMMA EventsAre ==
  ASSUME NEW e \in Event
  PROVE  /\ e.type = "UPDATE" => e.keys \in SUBSET Key /\ e.number \in Nat
         /\ e.type = "REQUEST" => e.method \in Method
BY DEF Event

LEMMA QueueTypeStep == TypeOK /\ [Next]_vars => QueueType'
<1> SUFFICES ASSUME TypeOK, [Next]_vars PROVE QueueType'
  OBVIOUS
<1>0. QueueType /\ sent \in Nat
  BY DEF TypeOK, RunnerType, QueueType, HistoryType
<1>1. CASE Environment
  <2>1. CASE MqttConnected
    <3>1. [type |-> "CONNECTED"] \in Event
      BY DEF Event
    <3> QED BY <1>0, <2>1, <3>1, PostIs DEF MqttConnected
  <2>2. CASE MqttDisconnected
    <3>1. [type |-> "DISCONNECTED"] \in Event
      BY DEF Event
    <3> QED BY <1>0, <2>2, <3>1, PostIs DEF MqttDisconnected
  <2>3. ASSUME NEW K \in (SUBSET Key) \ {{}}, MqttUpdate(K) PROVE QueueType'
    <3> DEFINE e == [type |-> "UPDATE", keys |-> K, number |-> sent + 1]
    <3>1. e \in Event
      BY <1>0 DEF Event
    <3>2. Post(e)
      BY <2>3 DEF MqttUpdate, MqttData
    <3> HIDE DEF e
    <3> QED BY <1>0, <3>1, <3>2, PostIs
  <2>4. ASSUME NEW m \in Method, MqttRequest(m) PROVE QueueType'
    <3> DEFINE e == [type |-> "REQUEST", method |-> m]
    <3>1. e \in Event
      BY DEF Event
    <3>2. Post(e)
      BY <2>4 DEF MqttRequest, MqttData
    <3> HIDE DEF e
    <3> QED BY <1>0, <3>1, <3>2, PostIs
  <2> QED BY <1>1, <2>1, <2>2, <2>3, <2>4 DEF Environment
<1>2. CASE UNCHANGED queue
  BY <1>0, <1>2 DEF QueueType
<1>3. CASE Api
  BY <1>2, <1>3 DEF Api, tbcmh_attributes_subscribe, tbcmh_attributes_unsubscribe,
                    tbcmh_serverrpc_subscribe, tbcmh_serverrpc_unsubscribe
<1>4. CASE Control
  BY <1>2, <1>4 DEF Control, tbcmh_connect, tbcmh_disconnect, tbcmh_destroy, tbcmh_init
<1>5. CASE Run
  <2>1. ASSUME NEW type, Receive(type) PROVE QueueType'
    BY <1>0, <2>1, ReceiveIs
  <2>2. CASE FinishDestroy
    <3>1. << >> \in Seq(Event) /\ Len(<< >>) = 0
      OBVIOUS
    <3>2. 0 <= QueueSize
      BY SubscriptionsAssumption
    <3> QED BY <2>2, <3>1, <3>2 DEF FinishDestroy, QueueType
  <2>3. CASE tbcm_disconnect \/ FinishDisconnect \/ ReturnFromEvent \/ WalkOn \/ ReturnFromUpdate
             \/ ReturnFromRequest
    BY <1>2, <2>3 DEF tbcm_disconnect, FinishDisconnect, ReturnFromEvent, WalkOn,
                      ReturnFromUpdate, ReturnFromRequest
  <2> QED BY <1>5, <2>1, <2>2, <2>3 DEF Run, OnConnected, OnDisconnected, OnUpdate, OnRequest
<1>6. CASE UNCHANGED vars
  BY <1>2, <1>6 DEF vars
<1> QED BY <1>1, <1>3, <1>4, <1>5, <1>6 DEF Next

\* The frames that are pushed, one for each action that pushes.
LEMMA PushIs ==
  ASSUME StackType, NEW f \in Frame, Push(f)
  PROVE  StackType'
BY Pushed DEF StackType, Push

LEMMA UpdateSet ==
  ASSUME NEW K \in SUBSET Key, NEW m \in Nat, NEW n \in Entry \cup {End}
  PROVE  [Call("update", "step") EXCEPT !.keys = K, !.number = m, !.next = n] \in Frame
<1> DEFINE f == Call("update", "step")
           g == [f EXCEPT !.keys = K]
           h == [g EXCEPT !.number = m]
<1>1. f \in Frame
  BY CallIsFrame
<1> HIDE DEF f
<1>2. g \in Frame
  BY <1>1, FrameChanged
<1> HIDE DEF g
<1>3. h \in Frame
  BY <1>2, FrameChanged
<1> HIDE DEF h
<1>4. [h EXCEPT !.next = n] \in Frame
  BY <1>3, FrameChanged
<1> QED BY <1>4 DEF f, g, h

Walked(f, i, n, p) == [f EXCEPT !.id = i, !.next = n, !.pc = p, !.result = 0]

\* What a frame may have for an entry and for pc.
EntryOrEnd == Entry \cup {End}
Place == {"call", "step", "return"}

LEMMA WalkedIs ==
  ASSUME NEW f \in Frame, NEW i \in EntryOrEnd, NEW n \in EntryOrEnd, NEW p \in Place
  PROVE  Walked(f, i, n, p) \in Frame /\ Walked(f, i, n, p).next = n
         /\ Walked(f, i, n, p).kind = f.kind
<1> DEFINE g == [f EXCEPT !.id = i]
           h == [g EXCEPT !.next = n]
           k == [h EXCEPT !.pc = p]
<1>1. g \in Frame /\ g.kind = f.kind
  <2>1. g \in Frame
    BY FrameChanged DEF EntryOrEnd
  <2>2. g.kind = f.kind
    BY DEF Frame
  <2> QED BY <2>1, <2>2
<1> HIDE DEF g
<1>2. h \in Frame /\ h.kind = f.kind /\ h.next = n
  <2>1. h \in Frame
    BY <1>1, FrameChanged DEF EntryOrEnd
  <2>2. h.kind = f.kind /\ h.next = n
    BY <1>1 DEF Frame
  <2> QED BY <2>1, <2>2
<1> HIDE DEF h
<1>3. k \in Frame /\ k.kind = f.kind /\ k.next = n
  <2>1. k \in Frame
    BY <1>2, FrameChanged DEF Place
  <2>2. k.kind = f.kind /\ k.next = n
    BY <1>2 DEF Frame
  <2> QED BY <2>1, <2>2
<1> HIDE DEF k
<1>4. [k EXCEPT !.result = 0] \in Frame /\ [k EXCEPT !.result = 0].kind = f.kind
      /\ [k EXCEPT !.result = 0].next = n
  <2>1. 0 \in 0..2
    OBVIOUS
  <2>2. [k EXCEPT !.result = 0] \in Frame
    BY <1>3, <2>1, FrameChanged
  <2>3. [k EXCEPT !.result = 0].kind = k.kind /\ [k EXCEPT !.result = 0].next = k.next
    BY <1>3 DEF Frame
  <2> QED BY <1>3, <2>2, <2>3
<1> QED BY <1>4 DEF g, h, k, Walked

LEMMA UpdateFrame ==
  ASSUME ListsType, NEW e \in Event, e.type = "UPDATE"
  PROVE  /\ After(End, attributessubscribe_list) \in attributessubscribe_list \cup {End}
         /\ [Call("update", "step") EXCEPT !.keys = e.keys, !.number = e.number,
               !.next = After(End, attributessubscribe_list)] \in Frame
<1>1. e.keys \in SUBSET Key /\ e.number \in Nat
  BY EventsAre
<1>2. attributessubscribe_list \in SUBSET Nat /\ End \in Nat
  BY SubscriptionsAssumption DEF ListsType, Entry, End
<1>3. After(End, attributessubscribe_list) \in attributessubscribe_list \cup {End}
  BY <1>2, AfterIsListed
<1>4. After(End, attributessubscribe_list) \in Entry \cup {End}
  BY <1>3 DEF ListsType
<1> DEFINE n == After(End, attributessubscribe_list)
<1> HIDE DEF n
<1>5. [Call("update", "step") EXCEPT !.keys = e.keys, !.number = e.number, !.next = n] \in Frame
  BY <1>1, <1>4, UpdateSet DEF n
<1> QED BY <1>3, <1>5 DEF n

\* The frame of a walk after its next entry has been taken.
WalkedOn ==
  [Top EXCEPT !.id = Top.next,
              !.next = After(Top.next, attributessubscribe_list),
              !.pc = IF keys[Top.next] = {} \/ keys[Top.next] \cap Top.keys # {}
                     THEN "call" ELSE "step",
              !.result = 0]

LEMMA WalkFrame ==
  ASSUME ListsType, StackType, stack # << >>
  PROVE  /\ WalkedOn \in Frame
         /\ WalkedOn.next \in attributessubscribe_list \cup {End}
         /\ WalkedOn.kind = Top.kind
<1>1. Top \in Frame
  BY TopIs DEF StackType
<1>2. attributessubscribe_list \in SUBSET Nat /\ Top.next \in Nat /\ Top.next \in Entry \cup {End}
  BY <1>1, SubscriptionsAssumption DEF ListsType, Entry, End, Frame
<1> DEFINE n == After(Top.next, attributessubscribe_list)
<1>3. n \in attributessubscribe_list \cup {End}
  BY <1>2, AfterIsListed
<1>4. n \in Entry \cup {End}
  BY <1>3 DEF ListsType
<1> DEFINE p == IF keys[Top.next] = {} \/ keys[Top.next] \cap Top.keys # {} THEN "call" ELSE "step"
<1>5. p \in {"call", "step", "return"}
  OBVIOUS
<1>6. WalkedOn = Walked(Top, Top.next, n, p)
  BY Zenon DEF WalkedOn, Walked
<1> HIDE DEF n, p
<1>7. /\ Walked(Top, Top.next, n, p) \in Frame
      /\ Walked(Top, Top.next, n, p).next = n
      /\ Walked(Top, Top.next, n, p).kind = Top.kind
  <2>1. Top.next \in Entry \cup {End}
    BY <1>2
  <2>2. Top.next \in EntryOrEnd /\ n \in EntryOrEnd /\ p \in Place
    BY <1>4, <1>5, <2>1 DEF EntryOrEnd, Place
  <2> QED BY <1>1, <2>2, WalkedIs
<1> QED BY <1>3, <1>6, <1>7

LEMMA StackTypeStep == TypeOK /\ [Next]_vars => StackType'
<1> SUFFICES ASSUME TypeOK, [Next]_vars PROVE StackType'
  OBVIOUS
<1>0. StackType /\ ListsType /\ QueueType /\ stack \in Seq(Frame)
  BY DEF TypeOK, RunnerType, StackType, QueueType
<1>2. CASE UNCHANGED stack
  BY <1>0, <1>2 DEF StackType
<1>3. CASE Environment
  BY <1>2, <1>3 DEF Environment, MqttConnected, MqttDisconnected, MqttData, MqttUpdate, MqttRequest
<1>4. CASE Api
  <2>1. WillReturn(Runner, 1) \in Seq(Frame) /\ \A t : WillReturn(t, 1) \in Seq(Frame)
    BY <1>0, WillReturnIs
  <2>2. ASSUME NEW t, NEW id, tbcmh_attributes_unsubscribe(t, id) PROVE StackType'
    BY <2>1, <2>2 DEF tbcmh_attributes_unsubscribe, StackType
  <2> QED BY <1>2, <1>4, <2>2 DEF Api, tbcmh_attributes_subscribe, tbcmh_serverrpc_subscribe,
                                  tbcmh_serverrpc_unsubscribe
<1>5. CASE Control
  <2> DEFINE w == WillReturn(Runner, 2)
  <2>1. w \in Seq(Frame)
    BY <1>0, WillReturnIs
  <2>2. Call("flush", "step") \in Frame /\ Call("destroy", "step") \in Frame
    BY CallIsFrame
  <2>3. stack' = stack \/ stack' = Append(w, Call("flush", "step"))
        \/ stack' = Append(w, Call("destroy", "step"))
        \/ stack' = Append(Append(w, Call("destroy", "step")), Call("flush", "step"))
    BY <1>5 DEF Control, tbcmh_connect, tbcmh_disconnect, tbcmh_destroy, tbcmh_init
  <2> HIDE DEF w
  <2>4. /\ Append(w, Call("flush", "step")) \in Seq(Frame)
        /\ Append(w, Call("destroy", "step")) \in Seq(Frame)
        /\ Append(Append(w, Call("destroy", "step")), Call("flush", "step")) \in Seq(Frame)
    BY <2>1, <2>2, Pushed
  <2> QED BY <1>0, <2>3, <2>4 DEF StackType
<1>6. CASE Run
  <2>1. CASE OnConnected
    BY <1>0, <2>1, CallIsFrame, PushIs DEF OnConnected
  <2>2. CASE OnDisconnected
    BY <1>0, <2>2, CallIsFrame, PushIs DEF OnDisconnected
  <2>3. CASE OnUpdate
    <3>1. Head(queue) \in Event /\ Head(queue).type = "UPDATE"
      BY <1>0, <2>3, ReceiveIs DEF OnUpdate
    <3> QED BY <1>0, <2>3, <3>1, UpdateFrame, PushIs DEF OnUpdate
  <2>4. CASE OnRequest
    <3> DEFINE n == Serving(Head(queue).method)
    <3>1. n \in Entry \cup {End}
      BY <1>0, ServingIs
    <3> HIDE DEF n
    <3>2. [Call("request", "call") EXCEPT !.id = n] \in Frame
      BY <3>1 DEF Call, Frame, End
    <3>3. UNCHANGED stack \/ Push([Call("request", "call") EXCEPT !.id = n])
      BY <2>4 DEF OnRequest, n
    <3> QED BY <1>0, <1>2, <3>2, <3>3, PushIs
  <2>5. CASE FinishDisconnect \/ FinishDestroy \/ ReturnFromEvent \/ ReturnFromRequest
    <3>1. stack # << >> /\ stack' = Below
      BY <2>5 DEF FinishDisconnect, FinishDestroy, ReturnFromEvent, ReturnFromRequest, IsTop, Return
    <3> QED BY <1>0, <3>1, TopIs DEF StackType
  <2>6. CASE tbcm_disconnect
    <3>1. stack # << >> /\ stack' = [stack EXCEPT ![Len(stack)].kind = "drain"]
      BY <2>6 DEF tbcm_disconnect, IsTop, Return
    <3>2. [Top EXCEPT !.kind = "drain"] \in Frame
      BY <1>0, <3>1, TopIs, FrameChanged
    <3>3. stack' = [stack EXCEPT ![Len(stack)] = [Top EXCEPT !.kind = "drain"]]
      BY <3>1 DEF Top
    <3> QED BY <1>0, <3>1, <3>2, <3>3, TopIs DEF StackType
  <2>7. CASE WalkOn
    <3>1. stack # << >> /\ (stack' = Below \/ stack' = [stack EXCEPT ![Len(stack)] = WalkedOn])
      BY <2>7 DEF WalkOn, IsTop, Return, WalkedOn, Top
    <3>2. WalkedOn \in Frame
      BY <1>0, <3>1, WalkFrame
    <3> QED BY <1>0, <3>1, <3>2, TopIs DEF StackType
  <2>8. CASE ReturnFromUpdate
    <3>1. stack # << >> /\ (stack' = Below \/ stack' = [stack EXCEPT ![Len(stack)].pc = "step"])
      BY <2>8 DEF ReturnFromUpdate, IsTop, Return
    <3>2. [Top EXCEPT !.pc = "step"] \in Frame
      BY <1>0, <3>1, TopIs, FrameChanged
    <3>3. [stack EXCEPT ![Len(stack)].pc = "step"]
            = [stack EXCEPT ![Len(stack)] = [Top EXCEPT !.pc = "step"]]
      BY DEF Top
    <3> QED BY <1>0, <3>1, <3>2, <3>3, TopIs DEF StackType
  <2> QED BY <1>6, <2>1, <2>2, <2>3, <2>4, <2>5, <2>6, <2>7, <2>8 DEF Run
<1>7. CASE UNCHANGED vars
  BY <1>2, <1>7 DEF vars
<1> QED BY <1>3, <1>4, <1>5, <1>6, <1>7 DEF Next

\* alive and fault.
LEMMA FlagsStep ==
  alive \in BOOLEAN /\ fault \in BOOLEAN /\ [Next]_vars => alive' \in BOOLEAN /\ fault' \in BOOLEAN
<1> SUFFICES ASSUME alive \in BOOLEAN, fault \in BOOLEAN, [Next]_vars
             PROVE  alive' \in BOOLEAN /\ fault' \in BOOLEAN
  OBVIOUS
<1>1. CASE Environment
  BY <1>1 DEF Environment, MqttConnected, MqttDisconnected, MqttData, MqttUpdate, MqttRequest
<1>2. CASE Api
  BY <1>2 DEF Api, tbcmh_attributes_subscribe, tbcmh_attributes_unsubscribe,
              tbcmh_serverrpc_subscribe, tbcmh_serverrpc_unsubscribe
<1>3. CASE Control
  BY <1>3 DEF Control, tbcmh_connect, tbcmh_disconnect, tbcmh_destroy, tbcmh_init
<1>4. CASE Run
  <2>1. ASSUME NEW s, Return(s) PROVE fault' \in BOOLEAN
    BY <2>1, Zenon DEF Return
  <2>2. CASE WalkOn
    <3>1. fault' \in BOOLEAN
      BY <2>1, <2>2, Zenon DEF WalkOn
    <3> QED BY <2>2, <3>1 DEF WalkOn
  <2>3. CASE tbcm_disconnect \/ FinishDisconnect \/ ReturnFromEvent \/ ReturnFromRequest
             \/ FinishDestroy
    <3>1. fault' \in BOOLEAN
      BY <2>1, <2>3 DEF tbcm_disconnect, FinishDisconnect, ReturnFromEvent, ReturnFromRequest,
                        FinishDestroy
    <3> QED BY <2>3, <3>1 DEF tbcm_disconnect, FinishDisconnect, ReturnFromEvent,
                              ReturnFromRequest, FinishDestroy
  <2>4. CASE ReturnFromUpdate
    BY <2>1, <2>4 DEF ReturnFromUpdate
  <2> QED BY <1>4, <2>2, <2>3, <2>4 DEF Run, OnConnected, OnDisconnected, OnUpdate, OnRequest
<1>5. CASE UNCHANGED vars
  BY <1>5 DEF vars
<1> QED BY <1>1, <1>2, <1>3, <1>4, <1>5 DEF Next

LEMMA TypeStep == TypeOK /\ [Next]_vars => TypeOK'
<1> SUFFICES ASSUME TypeOK, [Next]_vars PROVE TypeOK'
  OBVIOUS
<1>1. NetworkType /\ ListsType /\ RunnerType /\ alive \in BOOLEAN /\ fault \in BOOLEAN
  BY DEF TypeOK, RunnerType
<1>2. NetworkType' /\ ListsType' /\ HistoryType'
  BY <1>1, NetworkTypeStep, ListsTypeStep, HistoryTypeStep
<1>3. RunnerType'
  BY <1>1, QueueTypeStep, StackTypeStep, FlagsStep DEF RunnerType, QueueType, StackType
<1> QED BY <1>2, <1>3 DEF TypeOK

\* Types: the queue stays within its capacity, and the Runner's calls are what
\* the model says, however the application nests tbcmh_disconnect in callbacks.
THEOREM TypeCorrect == Spec => []TypeOK
<1>1. Init => TypeOK
  BY InitType
<1>2. TypeOK /\ [Next]_vars => TypeOK'
  BY TypeStep
<1> QED BY <1>1, <1>2, PTL DEF Spec

-----------------------------------------------------------------------------
(* TopicsFollowLists.                                                      *)

\* The event that makes the Runner subscribe is queued.
ConnectQueued == \E i \in 1..Len(queue) : queue[i].type = "CONNECTED"

\* TopicsFollowLists for one of the lists.
Follows(k, list) ==
  /\ k \in topics => list # {}
  /\ Connected /\ list # {} => k \in topics \/ missed \/ ConnectQueued

\* Nothing is subscribed but in a connection, and esp-mqtt runs then.
Live ==
  /\ topics # {} => Connected
  /\ Connected => started

LEMMA LiveStep == Live /\ [Next]_vars => Live'
<1> SUFFICES ASSUME Live, [Next]_vars PROVE Live'
  OBVIOUS
<1> USE DEF Live, Connected, network
<1>1. CASE Environment
  BY <1>1 DEF Environment, MqttConnected, MqttDisconnected, MqttData, MqttUpdate, MqttRequest
<1>2. CASE Api
  BY <1>2 DEF Api, tbcmh_attributes_subscribe, tbcmh_attributes_unsubscribe, TopicAdded,
              tbcmh_serverrpc_subscribe, tbcmh_serverrpc_unsubscribe, TopicRemoved
<1>3. CASE Control
  BY <1>3 DEF Control, tbcmh_connect, tbcmh_disconnect, tbcmh_destroy, tbcmh_init
<1>4. CASE Run
  BY <1>4 DEF Run, tbcm_disconnect, FinishDisconnect, FinishDestroy, OnConnected, Resubscribe,
              OnDisconnected, ReturnFromEvent, OnUpdate, WalkOn, ReturnFromUpdate, OnRequest,
              ReturnFromRequest
<1>5. CASE UNCHANGED vars
  BY <1>5 DEF vars
<1> QED BY <1>1, <1>2, <1>3, <1>4, <1>5 DEF Next

LEMMA FollowsBoth ==
  TopicsFollowLists <=>
    Follows("attributes", attributessubscribe_list) /\ Follows("serverrpc", serverrpc_list)
<1>1. DOMAIN Listed = {"attributes", "serverrpc"} /\ Listed["attributes"] = attributessubscribe_list
      /\ Listed["serverrpc"] = serverrpc_list
  BY DEF Listed
<1> QED BY <1>1 DEF TopicsFollowLists, Follows, ConnectQueued

LEMMA FollowsBothPrimed ==
  TopicsFollowLists' <=>
    Follows("attributes", attributessubscribe_list)' /\ Follows("serverrpc", serverrpc_list)'
<1>1. DOMAIN Listed' = {"attributes", "serverrpc"}
      /\ Listed'["attributes"] = attributessubscribe_list'
      /\ Listed'["serverrpc"] = serverrpc_list'
  BY DEF Listed
<1> QED BY <1>1 DEF TopicsFollowLists, Follows, ConnectQueued

\* An event that is queued stays queued until it is taken out.
LEMMA StaysQueued ==
  ASSUME QueueType, ConnectQueued, NEW e, Post(e)
  PROVE  ConnectQueued'
<1>1. PICK i \in 1..Len(queue) : queue[i].type = "CONNECTED"
  BY DEF ConnectQueued
<1>2. CASE queue' = queue
  BY <1>1, <1>2 DEF ConnectQueued
<1>3. CASE queue' = Append(queue, e)
  <2>1. Len(queue') = Len(queue) + 1 /\ queue'[i] = queue[i] /\ Len(queue) \in Nat
    BY <1>1, <1>3 DEF QueueType
  <2>2. i \in 1..Len(queue')
    BY <1>1, <2>1
  <2> QED BY <1>1, <2>1, <2>2 DEF ConnectQueued
<1> QED BY <1>2, <1>3 DEF Post

LEMMA StaysUntilTaken ==
  ASSUME QueueType, ConnectQueued, NEW type, type # "CONNECTED", Receive(type)
  PROVE  ConnectQueued'
<1>1. PICK i \in 1..Len(queue) : queue[i].type = "CONNECTED"
  BY DEF ConnectQueued
<1>2. /\ Head(queue) = queue[1] /\ Head(queue).type = type
      /\ Len(queue) \in Nat \ {0} /\ Len(queue') = Len(queue) - 1
      /\ \A j \in 1..Len(queue') : queue'[j] = queue[j + 1]
  BY ReceiveIs
<1>3. i # 1
  BY <1>1, <1>2
<1>4. i - 1 \in 1..Len(queue') /\ (i - 1) + 1 = i
  BY <1>2, <1>3
<1>5. queue'[i - 1].type = "CONNECTED"
  BY <1>1, <1>2, <1>4
<1> QED BY <1>4, <1>5 DEF ConnectQueued

\* Both lists keep what they have when only the queue grows or the Runner moves.
LEMMA FollowsStep ==
  TypeOK /\ Live /\ TopicsFollowLists /\ [Next]_vars => TopicsFollowLists'
<1> SUFFICES ASSUME TypeOK, Live, TopicsFollowLists, [Next]_vars PROVE TopicsFollowLists'
  OBVIOUS
<1>0. /\ QueueType /\ queue \in Seq(Event)
      /\ Follows("attributes", attributessubscribe_list)
      /\ Follows("serverrpc", serverrpc_list)
  BY FollowsBoth DEF TypeOK, RunnerType, QueueType
\* Nothing but the queue changes, and it keeps the event.
<1>1. ASSUME ConnectQueued => ConnectQueued', UNCHANGED <<topics, attributessubscribe_list,
             serverrpc_list, missed>>, Connected' => Connected
      PROVE  TopicsFollowLists'
  BY <1>0, <1>1, FollowsBothPrimed DEF Follows
\* No topic is subscribed, and nothing is connected.
<1>2. ASSUME topics' = {}, state' # "CONNECTED" PROVE TopicsFollowLists'
  BY <1>2, FollowsBothPrimed DEF Follows, Connected
<1>3. ASSUME UNCHANGED queue PROVE ConnectQueued => ConnectQueued'
  BY <1>3 DEF ConnectQueued
<1>4. CASE Environment
  <2>1. CASE MqttConnected
    <3>1. topics' = {} /\ Post([type |-> "CONNECTED"]) /\ missed' = (Len(queue) >= QueueSize)
      BY <2>1 DEF MqttConnected
    <3>2. CASE Len(queue) < QueueSize
      <4> DEFINE e == [type |-> "CONNECTED"]
      <4>1. queue' = Append(queue, e)
        BY <3>1, <3>2 DEF Post
      <4>2. e.type = "CONNECTED"
        OBVIOUS
      <4> HIDE DEF e
      <4>3. Len(queue) + 1 \in 1..Len(queue') /\ queue'[Len(queue) + 1] = e
        BY <1>0, <4>1
      <4>4. ConnectQueued'
        BY <4>2, <4>3 DEF ConnectQueued
      <4> QED BY <3>1, <4>4, FollowsBothPrimed DEF Follows
    <3>3. CASE ~(Len(queue) < QueueSize)
      <4>1. Len(queue) \in Nat /\ QueueSize \in Nat
        BY <1>0, SubscriptionsAssumption
      <4>2. Len(queue) >= QueueSize
        BY <3>3, <4>1
      <4>3. missed'
        BY <3>1, <4>2, Zenon
      <4> QED BY <3>1, <4>3, FollowsBothPrimed DEF Follows
    <3> QED BY <3>2, <3>3
  <2>2. CASE MqttDisconnected
    BY <1>2, <2>2 DEF MqttDisconnected
  <2>3. ASSUME NEW topic, NEW e, MqttData(topic, e) PROVE TopicsFollowLists'
    BY <1>0, <1>1, <2>3, StaysQueued DEF MqttData, network, lists, Connected
  <2> QED BY <1>4, <2>1, <2>2, <2>3 DEF Environment, MqttUpdate, MqttRequest
<1>5. CASE Api
  <2>1. ASSUME NEW t, NEW K, tbcmh_attributes_subscribe(t, K) PROVE TopicsFollowLists'
    <3>1. UNCHANGED <<state, queue, missed, serverrpc_list>>
          /\ topics' = TopicAdded("attributes", attributessubscribe_list)
          /\ attributessubscribe_list' # {}
      BY <2>1 DEF tbcmh_attributes_subscribe, history
    <3> QED BY <1>0, <1>3, <3>1, FollowsBothPrimed DEF Follows, TopicAdded, Connected
  <2>2. ASSUME NEW t, NEW id, tbcmh_attributes_unsubscribe(t, id) PROVE TopicsFollowLists'
    <3>1. UNCHANGED <<state, queue, missed, serverrpc_list>>
          /\ topics' = TopicRemoved("attributes", attributessubscribe_list, {id})
          /\ attributessubscribe_list' = attributessubscribe_list \ {id}
          /\ id \in attributessubscribe_list
      BY <2>2 DEF tbcmh_attributes_unsubscribe
    <3> QED BY <1>0, <1>3, <3>1, FollowsBothPrimed DEF Follows, TopicRemoved, Connected, Live
  <2>3. ASSUME NEW t, NEW m, tbcmh_serverrpc_subscribe(t, m) PROVE TopicsFollowLists'
    <3>1. UNCHANGED <<state, queue, missed, attributessubscribe_list>>
          /\ topics' = TopicAdded("serverrpc", serverrpc_list)
          /\ serverrpc_list' # {}
      BY <2>3 DEF tbcmh_serverrpc_subscribe, history
    <3> QED BY <1>0, <1>3, <3>1, FollowsBothPrimed DEF Follows, TopicAdded, Connected
  <2>4. ASSUME NEW t, NEW m, tbcmh_serverrpc_unsubscribe(t, m) PROVE TopicsFollowLists'
    <3>1. UNCHANGED <<state, queue, missed, attributessubscribe_list>>
          /\ topics' = TopicRemoved("serverrpc", serverrpc_list, {Serving(m)})
          /\ serverrpc_list' = serverrpc_list \ {Serving(m)}
      BY <2>4 DEF tbcmh_serverrpc_unsubscribe, history
    <3> QED BY <1>0, <1>3, <3>1, FollowsBothPrimed DEF Follows, TopicRemoved, Connected, Live
  <2> QED BY <1>5, <2>1, <2>2, <2>3, <2>4 DEF Api
<1>6. CASE Control
  BY <1>1, <1>3, <1>6 DEF Control, tbcmh_connect, tbcmh_disconnect, tbcmh_destroy, tbcmh_init,
                          network, lists, history, Connected
<1>7. CASE Run
  <2>1. CASE tbcm_disconnect \/ FinishDestroy
    BY <1>2, <2>1 DEF tbcm_disconnect, FinishDestroy
  <2>2. CASE FinishDisconnect \/ ReturnFromEvent \/ WalkOn \/ ReturnFromUpdate \/ ReturnFromRequest
    BY <1>1, <1>3, <2>2 DEF FinishDisconnect, ReturnFromEvent, WalkOn, ReturnFromUpdate,
                            ReturnFromRequest, network, lists, history, Connected
  <2>3. CASE OnConnected
    <3>1. topics' = Resubscribe /\ UNCHANGED <<state, attributessubscribe_list, serverrpc_list>>
      BY <2>3 DEF OnConnected, lists
    <3> QED BY <1>0, <3>1, FollowsBothPrimed DEF Follows, Resubscribe, Connected
  <2>4. CASE OnDisconnected \/ OnUpdate \/ OnRequest
    <3>1. \E type \in {"DISCONNECTED", "UPDATE", "REQUEST"} : Receive(type)
      BY <2>4 DEF OnDisconnected, OnUpdate, OnRequest
    <3>2. ConnectQueued => ConnectQueued'
      BY <1>0, <3>1, StaysUntilTaken
    <3> QED BY <1>1, <2>4, <3>2 DEF OnDisconnected, OnUpdate, OnRequest, network, lists, history,
                                    Connected
  <2> QED BY <1>7, <2>1, <2>2, <2>3, <2>4 DEF Run
<1>8. CASE UNCHANGED vars
  BY <1>1, <1>3, <1>8 DEF vars, network, lists, history, Connected
<1> QED BY <1>4, <1>5, <1>6, <1>7, <1>8 DEF Next

\* While the client is connected, the broker has the topic of every list that is
\* not empty, unless the event that subscribes it is queued or was dropped, and
\* of no list that is empty.
THEOREM TopicsFollow == Spec => []TopicsFollowLists
<1>1. Init => Live /\ TopicsFollowLists
  <2> SUFFICES ASSUME Init PROVE Live /\ TopicsFollowLists
    OBVIOUS
  <2>1. topics = {} /\ state = "DISCONNECTED"
    BY DEF Init
  <2> QED BY <2>1, FollowsBoth DEF Follows, Connected, Live
<1>2. TypeOK /\ Live /\ TopicsFollowLists /\ [Next]_vars => (Live /\ TopicsFollowLists)'
  BY LiveStep, FollowsStep
<1> QED BY <1>1, <1>2, TypeCorrect, PTL DEF Spec

-----------------------------------------------------------------------------
(* SafeIfResultsCount.                                                     *)

\* A walk that will not go on: its callback is running and has changed the list.
Ending(f) == f.kind = "update" => f.result # 0 /\ f.pc # "step"

\* In every walk that will go on, the saved entry is listed; only the innermost
\* call can be such a walk.  A client is destroyed outside of tbcmh_run only.
StackFits(s, list) ==
  \A i \in 1..Len(s) :
    /\ s[i].kind = "destroy" => i = 1
    /\ i < Len(s) => Ending(s[i])
    /\ s[i].kind = "update" /\ (s[i].pc = "step" \/ s[i].result = 0)
         => s[i].next \in list \cup {End}

\* The inductive invariant.
Sound ==
  ~ignored /\ ~intruded =>
    /\ ~fault
    /\ stack # << >> => alive
    /\ StackFits(stack, attributessubscribe_list)

LEMMA EmptyFits == \A list : StackFits(<< >>, list)
<1>1. Len(<< >>) = 0 /\ 1..0 = {}
  OBVIOUS
<1> QED BY <1>1 DEF StackFits

\* A call is pushed: the caller is a walk that ends, or no walk.
LEMMA PushFits ==
  ASSUME NEW s \in Seq(Frame), NEW list, StackFits(s, list), NEW f \in Frame,
         f.kind = "destroy" => s = << >>,
         f.kind = "update" => f.next \in list \cup {End},
         s # << >> => Ending(s[Len(s)])
  PROVE  StackFits(Append(s, f), list)
<1> DEFINE a == Append(s, f)
<1>1. /\ a \in Seq(Frame) /\ Len(a) = Len(s) + 1 /\ a[Len(s) + 1] = f
      /\ \A i \in 1..Len(s) : a[i] = s[i]
  BY Pushed
<1>2. Len(s) \in Nat /\ (s # << >> => Len(s) > 0) /\ (s = << >> => Len(s) = 0)
  OBVIOUS
<1> HIDE DEF a
<1>3. ASSUME NEW i \in 1..Len(a)
      PROVE  /\ a[i].kind = "destroy" => i = 1
             /\ i < Len(a) => Ending(a[i])
             /\ a[i].kind = "update" /\ (a[i].pc = "step" \/ a[i].result = 0)
                  => a[i].next \in list \cup {End}
  <2>1. CASE i = Len(s) + 1
    BY <1>1, <1>2, <2>1
  <2>2. CASE i \in 1..Len(s)
    <3>1. a[i] = s[i]
      BY <1>1, <2>2
    <3>2. i = Len(s) => Ending(s[i])
      BY <1>2, <2>2
    <3>3. i < Len(s) => Ending(s[i])
      BY <2>2 DEF StackFits
    <3>4. Ending(s[i])
      BY <1>2, <2>2, <3>2, <3>3
    <3> QED BY <2>2, <3>1, <3>4 DEF StackFits
  <2> QED BY <1>1, <1>2, <2>1, <2>2
<1> QED BY <1>3 DEF StackFits, a

\* The innermost call returns.
LEMMA PopFits ==
  ASSUME NEW s \in Seq(Frame), NEW list, StackFits(s, list), s # << >>
  PROVE  StackFits(SubSeq(s, 1, Len(s) - 1), list)
<1> DEFINE b == SubSeq(s, 1, Len(s) - 1)
<1>1. Len(b) = Len(s) - 1 /\ \A i \in 1..Len(s) - 1 : b[i] = s[i]
  BY Popped
<1>2. Len(s) \in Nat
  OBVIOUS
<1> HIDE DEF b
<1>3. \A i \in 1..Len(b) : i \in 1..Len(s) /\ i < Len(s) /\ b[i] = s[i]
  BY <1>1, <1>2
<1> QED BY <1>3 DEF StackFits, b

\* The innermost call changes.
LEMMA ChangeFits ==
  ASSUME NEW s \in Seq(Frame), NEW list, StackFits(s, list), s # << >>, NEW f \in Frame,
         f.kind = "destroy" => s[Len(s)].kind = "destroy",
         f.kind = "update" /\ (f.pc = "step" \/ f.result = 0) => f.next \in list \cup {End}
  PROVE  StackFits([s EXCEPT ![Len(s)] = f], list)
<1> DEFINE c == [s EXCEPT ![Len(s)] = f]
<1>1. /\ Len(c) = Len(s) /\ c[Len(s)] = f
      /\ \A i \in 1..Len(s) : i # Len(s) => c[i] = s[i]
  BY TopChanged
<1>2. Len(s) \in Nat /\ Len(s) \in 1..Len(s)
  OBVIOUS
<1> HIDE DEF c
<1>3. ASSUME NEW i \in 1..Len(c)
      PROVE  /\ c[i].kind = "destroy" => i = 1
             /\ i < Len(c) => Ending(c[i])
             /\ c[i].kind = "update" /\ (c[i].pc = "step" \/ c[i].result = 0)
                  => c[i].next \in list \cup {End}
  <2>1. CASE i = Len(s)
    BY <1>1, <1>2, <2>1 DEF StackFits
  <2>2. CASE i # Len(s)
    BY <1>1, <1>2, <2>2 DEF StackFits
  <2> QED BY <2>1, <2>2
<1> QED BY <1>3 DEF StackFits, c

\* The list grows, or changes arbitrarily while no walk will go on.
LEMMA GrowFits ==
  ASSUME NEW s, NEW list, StackFits(s, list), NEW more, list \subseteq more
  PROVE  StackFits(s, more)
BY DEF StackFits

LEMMA EndingFits ==
  ASSUME NEW s \in Seq(Frame), NEW list, StackFits(s, list), s # << >> => Ending(s[Len(s)])
  PROVE  \A other : StackFits(s, other)
<1>1. Len(s) \in Nat
  OBVIOUS
<1>2. ASSUME NEW i \in 1..Len(s) PROVE Ending(s[i])
  <2>1. CASE i < Len(s)
    BY <2>1 DEF StackFits
  <2>2. CASE i = Len(s)
    <3>1. s # << >>
      BY <2>2
    <3> QED BY <2>2, <3>1
  <2> QED BY <1>1, <2>1, <2>2
<1> QED BY <1>2 DEF StackFits, Ending

\* An application function called in a callback: its result ends the walk.
LEMMA CalledFits ==
  ASSUME StackType, NEW r \in 1..2, StackFits(stack, attributessubscribe_list),
         stack # << >> => Top.pc = "call"
  PROVE  LET w == WillReturn(Runner, r)
         IN  /\ w \in Seq(Frame) /\ (w = << >> <=> stack = << >>)
             /\ w # << >> => Ending(w[Len(w)])
             /\ \A list : StackFits(w, list)
<1> DEFINE w == WillReturn(Runner, r)
<1>0. stack \in Seq(Frame)
  BY DEF StackType
<1>1. /\ w \in Seq(Frame) /\ Len(w) = Len(stack)
      /\ \A i \in 1..Len(stack) : w[i] =
           IF Runner = Runner /\ i = Len(stack) /\ stack[i].result < r
           THEN [stack[i] EXCEPT !.result = r] ELSE stack[i]
  BY <1>0, WillReturnIs
<1> HIDE DEF w
<1>2. w = << >> <=> stack = << >>
  BY <1>0, <1>1
<1>3. CASE stack = << >>
  BY <1>1, <1>2, <1>3, EmptyFits DEF w
<1>4. CASE stack # << >>
  <2>1. Len(stack) \in Nat \ {0} /\ Top \in Frame /\ Top = stack[Len(stack)] /\ Top.pc = "call"
    BY <1>0, <1>4, TopIs DEF Top
  <2>2. w[Len(stack)] = IF Top.result < r THEN [Top EXCEPT !.result = r] ELSE Top
    BY <1>1, <2>1
  <2>3. Top.result \in 0..2
    BY <2>1 DEF Frame
  <2>4. w[Len(stack)].pc = "call" /\ w[Len(stack)].result # 0 /\ w[Len(stack)].kind = Top.kind
    BY <2>1, <2>2, <2>3 DEF Frame
  <2>5. Ending(w[Len(w)])
    BY <1>1, <2>4 DEF Ending
  <2>6. ASSUME NEW i \in 1..Len(w)
        PROVE  /\ w[i].kind = "destroy" => i = 1
               /\ i < Len(w) => Ending(w[i])
               /\ w[i].kind = "update" /\ (w[i].pc = "step" \/ w[i].result = 0)
                    => w[i].next \in attributessubscribe_list \cup {End}
    <3>1. CASE i = Len(stack)
      BY <1>1, <2>1, <2>4, <3>1 DEF StackFits
    <3>2. CASE i # Len(stack)
      <4>0. i \in 1..Len(stack)
        BY <1>1
      <4>1. w[i] = stack[i]
        BY <1>1, <3>2, <4>0
      <4>2. i < Len(stack)
        BY <2>1, <3>2, <4>0
      <4> QED BY <1>1, <4>0, <4>1, <4>2 DEF StackFits
    <3> QED BY <3>1, <3>2
  <2>7. StackFits(w, attributessubscribe_list)
    BY <2>6 DEF StackFits
  <2> QED BY <1>1, <1>2, <2>5, <2>7, EndingFits DEF w
<1> QED BY <1>3, <1>4

\* What a step has to show: the exceptions stay, so the state before is sound too.
LEMMA SoundStep ==
  ASSUME TypeOK, Sound, [Next]_vars, "destroy" \notin CallbackMay
  PROVE  Sound'
<1>0. /\ StackType /\ ListsType /\ QueueType /\ stack \in Seq(Frame)
      /\ ignored \in BOOLEAN /\ intruded \in BOOLEAN
  BY DEF TypeOK, RunnerType, StackType, QueueType, HistoryType
<1> DEFINE list == attributessubscribe_list
           Before == ~fault /\ (stack # << >> => alive) /\ StackFits(stack, list)
\* Nothing that matters changes, or the list grows.
<1>1. ASSUME UNCHANGED <<ignored, intruded, fault, alive, stack>>, list \subseteq list'
      PROVE  Sound'
  BY <1>1, GrowFits DEF Sound
\* The Runner makes a step that leaves the list alone.
<1>2. ASSUME UNCHANGED <<ignored, intruded, list>>,
             Before => ~fault' /\ (stack' # << >> => alive') /\ StackFits(stack', list)
      PROVE  Sound'
  BY <1>2 DEF Sound
\* A call of tbcmh_run or of the application that is no walk.
<1>3. ASSUME NEW f \in Frame, Push(f), f.kind \notin {"update", "destroy"}, Before,
             stack # << >> => Ending(Top)
      PROVE  StackFits(stack', list)
  BY <1>0, <1>3, PushFits DEF Push, Top
<1>4. ASSUME NEW type, Receive(type), stack # << >>
      PROVE  Ending(Top) /\ alive
  BY <1>4 DEF Receive, Ending
\* A call returns.
<1>5. ASSUME Before, stack # << >>, stack' = Below
      PROVE  StackFits(stack', list)
  BY <1>0, <1>5, PopFits DEF Below
<1>6. CASE Environment
  BY <1>1, <1>6 DEF Environment, MqttConnected, MqttDisconnected, MqttData, MqttUpdate, MqttRequest,
                    lists, history
<1>7. CASE Api
  <2>1. ASSUME NEW t, NEW id, tbcmh_attributes_unsubscribe(t, id) PROVE Sound'
    <3> DEFINE Walking == \E i \in DOMAIN stack : stack[i].kind = "update"
    <3>1. /\ UNCHANGED <<alive, fault, ignored>>
          /\ stack' = WillReturn(t, 1)
          /\ intruded' = (intruded \/ (t # Runner /\ Walking))
          /\ list' = list \ {id}
          /\ InApplication(t)
      BY <2>1 DEF tbcmh_attributes_unsubscribe, MayCall
    <3> SUFFICES ASSUME ~ignored', ~intruded'
                 PROVE  ~fault' /\ (stack' # << >> => alive') /\ StackFits(stack', list')
      BY DEF Sound
    <3>2. ~intruded /\ ~(t # Runner /\ Walking)
      BY <1>0, <3>1, Zenon
    <3>3. Before
      BY <3>1, <3>2 DEF Sound
    <3>4. CASE t = Runner
      <4>1. stack # << >> => Top.pc = "call"
        BY <3>1, <3>4 DEF InApplication
      <4>2. (stack' = << >> <=> stack = << >>) /\ StackFits(stack', list')
        BY <1>0, <3>1, <3>3, <3>4, <4>1, CalledFits
      <4> QED BY <3>1, <3>3, <4>2
    <3>5. CASE t # Runner
      <4>1. stack' = stack
        BY <3>1, <3>5 DEF WillReturn, InCallback
      <4>2. \A i \in 1..Len(stack) : stack[i].kind # "update"
        <5>1. DOMAIN stack = 1..Len(stack)
          BY <1>0
        <5> QED BY <3>2, <3>5, <5>1
      <4>3. StackFits(stack, list')
        BY <3>3, <4>2 DEF StackFits
      <4> QED BY <3>1, <3>3, <4>1, <4>3
    <3> QED BY <3>4, <3>5
  <2>2. ASSUME NEW t, \/ \E K \in Interests : tbcmh_attributes_subscribe(t, K)
                      \/ \E m \in Method : tbcmh_serverrpc_subscribe(t, m)
                      \/ \E m \in Method : tbcmh_serverrpc_unsubscribe(t, m)
        PROVE Sound'
    BY <1>1, <2>2 DEF tbcmh_attributes_subscribe, tbcmh_serverrpc_subscribe,
                      tbcmh_serverrpc_unsubscribe, history
  <2> QED BY <1>7, <2>1, <2>2 DEF Api
<1>8. CASE Control
  <2>1. CASE tbcmh_connect
    BY <1>1, <2>1 DEF tbcmh_connect, lists, history
  <2>2. CASE tbcmh_init
    <3>1. alive' /\ UNCHANGED <<ignored, intruded, fault, stack, list>>
      BY <2>2 DEF tbcmh_init, lists, history
    <3> QED BY <1>2, <3>1
  <2>3. CASE tbcmh_disconnect
    <3>1. /\ alive /\ UNCHANGED <<ignored, intruded, fault, alive, list>>
          /\ stack' = Append(WillReturn(Runner, 2), Call("flush", "step"))
          /\ stack # << >> => Top.pc = "call"
      BY <2>3 DEF tbcmh_disconnect, MayCall, InApplication, lists, history
    <3> DEFINE w == WillReturn(Runner, 2)
               f == Call("flush", "step")
    <3>2. ASSUME Before PROVE StackFits(stack', list)
      <4>1. w \in Seq(Frame) /\ (w # << >> => Ending(w[Len(w)])) /\ StackFits(w, list)
        BY <1>0, <3>1, <3>2, CalledFits
      <4>2. f \in Frame /\ f.kind = "flush"
        BY CallIsFrame DEF Call
      <4> HIDE DEF w, f
      <4>3. StackFits(Append(w, f), list)
        BY <4>1, <4>2, PushFits
      <4> QED BY <3>1, <4>3 DEF w, f
    <3> QED BY <1>2, <3>1, <3>2
  <2>4. CASE tbcmh_destroy
    <3>1. stack = << >> /\ alive /\ UNCHANGED <<ignored, intruded, fault, alive, list>>
      BY <2>4 DEF tbcmh_destroy, MayCall, InCallback, InApplication, lists, history
    <3> DEFINE f == Call("flush", "step")
               d == Call("destroy", "step")
    <3>2. stack' = Append(stack, d) \/ stack' = Append(Append(stack, d), f)
      BY <2>4, <3>1 DEF tbcmh_destroy, WillReturn, InCallback
    <3>3. f \in Frame /\ f.kind = "flush" /\ d \in Frame /\ d.kind = "destroy" /\ Ending(d)
      BY CallIsFrame DEF Call, Ending
    <3> HIDE DEF f, d
    <3>4. ASSUME Before PROVE StackFits(stack', list)
      <4>1. StackFits(Append(stack, d), list)
        BY <1>0, <3>1, <3>3, <3>4, PushFits
      <4>2. Append(stack, d) \in Seq(Frame) /\ Append(stack, d)[Len(Append(stack, d))] = d
        BY <1>0, <3>3
      <4>3. StackFits(Append(Append(stack, d), f), list)
        BY <3>3, <4>1, <4>2, PushFits
      <4> QED BY <3>2, <4>1, <4>3
    <3> QED BY <1>2, <3>1, <3>4
  <2> QED BY <1>8, <2>1, <2>2, <2>3, <2>4 DEF Control
<1>9. CASE Run
  <2>1. CASE OnConnected \/ OnDisconnected
    <3> DEFINE f == Call("event", "call")
    <3>1. /\ \E type : Receive(type)
          /\ Push(f) /\ UNCHANGED <<ignored, intruded, list, alive, fault>> /\ alive
      BY <2>1 DEF OnConnected, OnDisconnected, lists, history, Receive
    <3>2. f \in Frame /\ f.kind = "event"
      BY CallIsFrame DEF Call
    <3> HIDE DEF f
    <3>3. stack # << >> => Ending(Top)
      BY <1>4, <3>1
    <3> QED BY <1>2, <1>3, <3>1, <3>2, <3>3
  <2>2. CASE OnUpdate
    <3> DEFINE f == [Call("update", "step") EXCEPT !.keys = Head(queue).keys,
                       !.number = Head(queue).number,
                       !.next = After(End, attributessubscribe_list)]
    <3>1. /\ Receive("UPDATE")
          /\ Push(f) /\ UNCHANGED <<ignored, intruded, list, alive, fault>> /\ alive
      BY <2>2 DEF OnUpdate, lists, history, Receive
    <3>2. Head(queue) \in Event /\ Head(queue).type = "UPDATE"
      BY <1>0, <3>1, ReceiveIs
    <3>3. f \in Frame /\ After(End, list) \in list \cup {End}
      BY <1>0, <3>2, UpdateFrame
    <3>4. f.kind = "update" /\ f.next = After(End, list)
      BY DEF Call
    <3> HIDE DEF f
    <3>5. stack # << >> => Ending(Top)
      BY <1>4, <3>1
    <3>6. ASSUME Before PROVE StackFits(stack', list)
      BY <1>0, <3>1, <3>3, <3>4, <3>5, <3>6, PushFits DEF Push, Top
    <3> QED BY <1>2, <3>1, <3>6
  <2>3. CASE OnRequest
    <3> DEFINE f == [Call("request", "call") EXCEPT !.id = Serving(Head(queue).method)]
    <3>1. /\ Receive("REQUEST") /\ UNCHANGED <<ignored, intruded, list, alive, fault>> /\ alive
          /\ (UNCHANGED stack \/ Push(f))
      BY <2>3 DEF OnRequest, lists, history, Receive
    <3>2. f.kind = "request"
      BY DEF Call
    <3>3. f \in Frame
      <4>1. Serving(Head(queue).method) \in Entry \cup {End} /\ Call("request", "call") \in Frame
        BY <1>0, ServingIs, CallIsFrame
      <4> QED BY <4>1, FrameChanged
    <3> HIDE DEF f
    <3>4. stack # << >> => Ending(Top)
      BY <1>4, <3>1
    <3>5. Before => StackFits(stack', list)
      BY <1>3, <3>1, <3>2, <3>3, <3>4
    <3> QED BY <1>2, <3>1, <3>5
  <2>4. CASE FinishDisconnect \/ ReturnFromEvent \/ ReturnFromRequest
    <3>1. stack # << >> /\ stack' = Below /\ fault' = ~alive
          /\ UNCHANGED <<ignored, intruded, list, alive>>
      BY <2>4 DEF FinishDisconnect, ReturnFromEvent, ReturnFromRequest, IsTop, Return, lists,
                  history
    <3>2. ASSUME Before PROVE ~fault'
      BY <3>1, <3>2, Zenon
    <3> QED BY <1>2, <1>5, <3>1, <3>2
  <2>5. CASE FinishDestroy
    <3>1. stack # << >> /\ Top.kind = "destroy" /\ stack' = Below /\ fault' = ~alive
          /\ UNCHANGED <<ignored, intruded>>
      BY <2>5 DEF FinishDestroy, IsTop, Return, history
    <3>2. ASSUME Before PROVE ~fault' /\ stack' = << >>
      <4>1. ~fault'
        BY <3>1, <3>2, Zenon
      <4>2. Len(stack) \in Nat \ {0} /\ stack[Len(stack)].kind = "destroy"
        BY <1>0, <3>1 DEF Top
      <4>3. Len(stack) = 1
        <5>1. Len(stack) \in 1..Len(stack)
          BY <4>2
        <5>2. stack[Len(stack)].kind = "destroy" => Len(stack) = 1
          BY <3>2, <5>1 DEF StackFits
        <5> QED BY <4>2, <5>2
      <4>4. Len(Below) = 0 /\ Below \in Seq(Frame)
        BY <1>0, <3>1, <4>3, Popped DEF Below
      <4> QED BY <3>1, <4>1, <4>4
    <3> QED BY <3>1, <3>2, EmptyFits DEF Sound
  <2>6. CASE tbcm_disconnect
    <3> DEFINE f == [Top EXCEPT !.kind = "drain"]
    <3>1. stack # << >> /\ fault' = ~alive /\ UNCHANGED <<ignored, intruded, list, alive>>
          /\ stack' = [stack EXCEPT ![Len(stack)].kind = "drain"]
      BY <2>6 DEF tbcm_disconnect, IsTop, Return, lists, history
    <3>2. stack' = [stack EXCEPT ![Len(stack)] = f]
      BY <3>1 DEF Top
    <3>3. f \in Frame /\ f.kind = "drain"
      <4>1. Top \in Frame
        BY <1>0, <3>1, TopIs
      <4>2. f.kind = "drain"
        BY <4>1 DEF Frame
      <4> QED BY <4>1, <4>2, FrameChanged
    <3> HIDE DEF f
    <3>4. ASSUME Before PROVE StackFits(stack', list)
      <4>1. f.kind # "destroy" /\ f.kind # "update" /\ stack # << >>
        BY <3>1, <3>3
      <4>2. StackFits([stack EXCEPT ![Len(stack)] = f], list)
        BY <1>0, <3>3, <3>4, <4>1, ChangeFits
      <4> QED BY <3>2, <4>2
    <3>5. ASSUME Before PROVE ~fault'
      BY <3>1, <3>5, Zenon
    <3> QED BY <1>2, <3>1, <3>4, <3>5
  <2>7. CASE WalkOn
    <3>0. stack # << >> /\ Top.kind = "update" /\ Top.pc = "step"
          /\ UNCHANGED <<ignored, intruded, list, alive>>
      BY <2>7 DEF WalkOn, IsTop, lists, history
    <3>1. CASE Top.next = End /\ Return(Below)
      <4>1. ASSUME Before PROVE ~fault'
        BY <3>0, <3>1, <4>1, Zenon DEF Return
      <4> QED BY <1>2, <1>5, <3>0, <3>1, <4>1 DEF Return
    <3>2. CASE /\ Top.next # End
               /\ fault' = (Top.next \notin list)
               /\ stack' = [stack EXCEPT ![Len(stack)] = WalkedOn]
      <4>1. ASSUME Before PROVE Top.next \in list
        <5>1. Len(stack) \in 1..Len(stack) /\ Top = stack[Len(stack)]
          BY <1>0, <3>0 DEF Top
        <5>2. stack[Len(stack)].next \in list \cup {End}
          BY <3>0, <4>1, <5>1 DEF StackFits
        <5> QED BY <3>2, <5>1, <5>2
      <4>2. ASSUME Before PROVE ~fault'
        BY <3>2, <4>1, <4>2, Zenon
      <4>3. WalkedOn \in Frame /\ WalkedOn.next \in list \cup {End} /\ WalkedOn.kind = "update"
        BY <1>0, <3>0, WalkFrame
      <4>4. ASSUME Before PROVE StackFits(stack', list)
        BY <1>0, <3>0, <3>2, <4>3, <4>4, ChangeFits
      <4> QED BY <1>2, <3>0, <4>2, <4>4
    <3> QED BY <2>7, <3>1, <3>2 DEF WalkOn, WalkedOn, Top
  <2>8. CASE ReturnFromUpdate
    <3>0. stack # << >> /\ Top.kind = "update" /\ Top.pc # "step"
          /\ UNCHANGED <<intruded, list, alive>>
      BY <2>8 DEF ReturnFromUpdate, IsTop, lists
    <3>1. CASE Return(Below) /\ UNCHANGED ignored
      <4>1. ASSUME Before PROVE ~fault'
        BY <3>0, <3>1, <4>1, Zenon DEF Return
      <4> QED BY <1>2, <1>5, <3>0, <3>1, <4>1 DEF Return
    <3>2. CASE /\ ~EndsWalk(Top.id, Top.result)
               /\ stack' = [stack EXCEPT ![Len(stack)].pc = "step"]
               /\ ignored' = (ignored \/ (keys[Top.id] = {} /\ Top.result # 0))
               /\ UNCHANGED fault
      <4> SUFFICES ASSUME ~ignored', ~intruded'
                   PROVE  ~fault' /\ (stack' # << >> => alive') /\ StackFits(stack', list')
        BY DEF Sound
      <4>1. ~ignored /\ ~(keys[Top.id] = {} /\ Top.result # 0)
        BY <1>0, <3>2, Zenon
      <4>2. Before
        BY <3>0, <4>1 DEF Sound
      <4>3. Top.result = 0
        BY <3>2, <4>1 DEF EndsWalk
      <4> DEFINE f == [Top EXCEPT !.pc = "step"]
      <4>4. stack' = [stack EXCEPT ![Len(stack)] = f]
        BY <3>2 DEF Top
      <4>5. f \in Frame /\ f.kind = "update" /\ f.next = Top.next
        <5>1. Top \in Frame
          BY <1>0, <3>0, TopIs
        <5>2. f.kind = Top.kind /\ f.next = Top.next
          BY <5>1 DEF Frame
        <5> QED BY <3>0, <5>1, <5>2, FrameChanged
      <4>6. Top.next \in list \cup {End}
        <5>1. Len(stack) \in 1..Len(stack) /\ Top = stack[Len(stack)]
          BY <1>0, <3>0 DEF Top
        <5> QED BY <3>0, <4>2, <4>3, <5>1 DEF StackFits
      <4> HIDE DEF f
      <4>7. StackFits(stack', list)
        BY <1>0, <3>0, <4>2, <4>4, <4>5, <4>6, ChangeFits
      <4> QED BY <3>0, <3>2, <4>2, <4>7
    <3> QED BY <2>8, <3>1, <3>2 DEF ReturnFromUpdate
  <2> QED BY <1>9, <2>1, <2>2, <2>3, <2>4, <2>5, <2>6, <2>7, <2>8 DEF Run
<1>10. CASE UNCHANGED vars
  BY <1>1, <1>10 DEF vars, lists, history
<1> QED BY <1>6, <1>7, <1>8, <1>9, <1>10 DEF Next

\* Callbacks that do not destroy the client can make the Runner use a freed
\* entry in the two cases only: an entry with all keys whose result the walk
\* ignores, and another task that unsubscribes during a walk.
THEOREM ResultsMakeSafe ==
  ASSUME "destroy" \notin CallbackMay
  PROVE  Spec => []SafeIfResultsCount
<1>1. Init => Sound
  <2> SUFFICES ASSUME Init PROVE Sound
    OBVIOUS
  <2>1. stack = << >> /\ ~fault
    BY Zenon DEF Init
  <2> QED BY <2>1, EmptyFits DEF Sound
<1>2. TypeOK /\ Sound /\ [Next]_vars => Sound'
  BY SoundStep
<1>3. Sound => SafeIfResultsCount
  BY DEF Sound, SafeIfResultsCount
<1> QED BY <1>1, <1>2, <1>3, TypeCorrect, PTL DEF Spec

=============================================================================
