-------------------------- MODULE SharedAttributes --------------------------
(***************************************************************************)
(* A set of shared attributes, extension/tbc_extension_sharedattributes.c, *)
(* on top of Subscriptions.  The set subscribes its attributes in batches  *)
(* of keys, each batch one entry of attributessubscribe_list.  Its         *)
(* on_update walks the whole set and calls on_set of the attributes that   *)
(* the message holds.                                                      *)
(*                                                                         *)
(* The functions of the set take no lock; only the Runner calls them.      *)
(* Messages are numbered, and the number stands for the value it carries.  *)
(***************************************************************************)
EXTENDS Subscriptions, FiniteSets

CONSTANTS
  MaxPerSubscribe,  \* max_attributes_per_subscribe, 1 to 10
  MaxPerRequest     \* max_attributes_per_request

ASSUME SharedAttributesAssumption ==
  /\ Key # {}
  /\ MaxPerSubscribe \in 1..10
  /\ MaxPerRequest \in Nat \ {0}

VARIABLES
  sharedattribute_list,  \* numbers of the registered attributes
  key,           \* key of an attribute
  subscribe_id,  \* entry of an attribute, NotSubscribed for -1
  client,        \* sharedattributes.client; "gone" when the set is destroyed
  registered,    \* attributes registered so far
  ours,          \* entries whose context is the set
  requested,     \* keys of the attribute requests without an answer
  \* History.
  device,        \* number of the message that on_set of a key got last
  heard,         \* number of the last message handled that holds the key
  cut            \* a walk ended before the end of its list

set     == <<sharedattribute_list, key, subscribe_id, client, registered, ours>>
values  == <<device, heard, cut>>
allVars == <<vars, set, requested, values>>

NotSubscribed == 0
Subscribed == {n \in sharedattribute_list : subscribe_id[n] # NotSubscribed}

InitSet ==
  /\ Init
  /\ sharedattribute_list = {}
  /\ key = [n \in Entry |-> CHOOSE k \in Key : TRUE]
  /\ subscribe_id = [n \in Entry |-> NotSubscribed]
  /\ client = "NULL" /\ registered = 0 /\ ours = {} /\ requested = {}
  /\ device = [k \in Key |-> 0] /\ heard = [k \in Key |-> 0] /\ cut = FALSE

-----------------------------------------------------------------------------
(* The functions of the set.  Callbacks of the set may unregister.         *)

tbce_sharedattributes_register(k) ==
  LET n == registered + 1
  IN /\ InApplication(Runner) /\ stack = << >>
     /\ client # "gone"
     /\ n \in Entry
     /\ registered' = n
     /\ key' = [key EXCEPT ![n] = k]
     /\ sharedattribute_list' = sharedattribute_list \cup {n}
     /\ UNCHANGED <<vars, subscribe_id, client, ours, requested, values>>

\* The first attribute with the key, or End.
Registered(k) == After(End, {n \in sharedattribute_list : key[n] = k})

\* Its subscription, if any, is left alone.
tbce_sharedattributes_unregister(k) ==
  /\ InApplication(Runner)
  /\ stack # << >> => Top.kind = "set" /\ "unregister" \in CallbackMay
  /\ Registered(k) # End
  /\ sharedattribute_list' = sharedattribute_list \ {Registered(k)}
  /\ stack' = WillReturn(Runner, 1)
  /\ UNCHANGED <<network, alive, queue, lists, fault, history,
                 key, subscribe_id, client, registered, ours, requested, values>>

\* The batch, from 0, in which attribute n of the attributes S goes.
Batch(n, S, max) == (Cardinality({m \in S : m <= n}) - 1) \div max

\* subscribe_id of the attributes new after their batches were subscribed.
BatchesSubscribed(new, id) ==
  [n \in Entry |-> IF n \in new THEN id[n] ELSE subscribe_id[n]]

\* There is one client, so the set belongs to no other.
tbce_sharedattributes_subscribe ==
  LET new     == sharedattribute_list \ Subscribed
      id      == [n \in new |-> made.attributes + 1 + Batch(n, new, MaxPerSubscribe)]
      entries == {id[n] : n \in new}
  IN /\ InApplication(Runner)
     /\ stack # << >> => Top.kind = "event"
     /\ client # "gone"
     /\ entries \subseteq Entry
     /\ made' = [made EXCEPT !.attributes = @ + Cardinality(entries)]
     /\ keys' = [e \in Entry |-> IF e \in entries THEN {key[n] : n \in {m \in new : id[m] = e}}
                                 ELSE keys[e]]
     /\ attributessubscribe_list' = attributessubscribe_list \cup entries
     /\ topics' = IF entries = {} THEN topics ELSE TopicAdded("attributes", attributessubscribe_list)
     /\ subscribe_id' = BatchesSubscribed(new, id)
     /\ ours' = ours \cup entries
     /\ client' = "client"
     /\ UNCHANGED <<state, started, alive, queue, serverrpc_list, method, stack, fault, history,
                    sharedattribute_list, key, registered, requested, values>>

\* Mutant: the attributes keep their subscribe_id.
IdsKept == subscribe_id
IdsReset == [n \in Entry |-> IF n \in sharedattribute_list THEN NotSubscribed ELSE subscribe_id[n]]

tbce_sharedattributes_unsubscribe ==
  LET entries == {subscribe_id[n] : n \in Subscribed}
  IN /\ InApplication(Runner) /\ stack = << >>
     /\ client = "client"
     /\ attributessubscribe_list' = attributessubscribe_list \ entries
     /\ topics' = TopicRemoved("attributes", attributessubscribe_list, entries)
     /\ subscribe_id' = IdsReset
     /\ client' = "NULL"
     /\ UNCHANGED <<state, started, alive, queue, keys, serverrpc_list, method, made, stack,
                    fault, history, sharedattribute_list, key, registered, ours, requested, values>>

\* It asks for the values in batches of keys, subscribed or not.  A request
\* of a client that is not connected is refused.
tbce_sharedattributes_initialized ==
  LET batch(n) == Batch(n, sharedattribute_list, MaxPerRequest)
  IN /\ InApplication(Runner)
     /\ stack # << >> => Top.kind = "event"
     /\ client # "gone"
     /\ Connected
     /\ requested' = requested \cup
          {{key[m] : m \in {o \in sharedattribute_list : batch(o) = batch(n)}} :
             n \in sharedattribute_list}
     /\ UNCHANGED <<vars, set, values>>

\* The set is emptied and not used again; its subscriptions stay.
tbce_sharedattributes_destroy ==
  /\ InApplication(Runner) /\ stack = << >>
  /\ sharedattribute_list' = {}
  /\ client' = "gone"
  /\ UNCHANGED <<vars, key, subscribe_id, registered, ours, requested, values>>

-----------------------------------------------------------------------------
(* The callbacks of the set.                                               *)

\* The keys of subscribed attributes, which on_update does not pass over.
Watched == {key[n] : n \in Subscribed}

Hear(K, number) ==
  heard' = [k \in Key |-> IF k \in K \cap Watched THEN number ELSE heard[k]]

Walk(K, number) ==
  [Call("set", "step") EXCEPT !.keys = K, !.number = number,
                              !.next = After(End, sharedattribute_list)]

\* _tbce_sharedattributes_on_update, called for an entry of the set.
OnUpdateOfSet ==
  /\ ~fault
  /\ IsTop("update", "call") /\ Top.id \in ours
  /\ stack' = Append([stack EXCEPT ![Len(stack)].pc = "return"], Walk(Top.keys, Top.number))
  /\ UNCHANGED <<network, alive, queue, lists, fault, history, set, requested, values>>

\* _tbce_sharedattributes_on_initialized
OnInitialized ==
  /\ Receive("RESPONSE")
  /\ Push(Walk(Head(queue).keys, Head(queue).number))
  /\ Hear(Head(queue).keys, Head(queue).number)
  /\ UNCHANGED <<network, alive, lists, fault, history, set, requested, device, cut>>

\* Returning from the walk hands the result of the last on_set to on_data.
LeaveWalk ==
  stack' = IF Len(stack) > 1 /\ stack[Len(stack) - 1].pc = "return"
           THEN [Below EXCEPT ![Len(Below)].result = Top.result]
           ELSE Below

\* Mutant: the first subscribe_id of a client, 0 in the code, is taken for none.
IsSetButFirst(n) == subscribe_id[n] > 1 /\ key[n] \in Top.keys

\* on_set of attribute n is called for the message of the walk.
IsSet(n) == subscribe_id[n] # NotSubscribed /\ key[n] \in Top.keys

\* The next attribute of the walk.
WalkSet ==
  /\ ~fault
  /\ IsTop("set", "step")
  /\ \/ /\ Top.next = End
        /\ LeaveWalk
        /\ fault' = ~alive
        /\ UNCHANGED device
     \/ /\ Top.next # End
        /\ fault' = (Top.next \notin sharedattribute_list)
        /\ device' = IF IsSet(Top.next) THEN [device EXCEPT ![key[Top.next]] = Top.number]
                     ELSE device
        /\ stack' = [stack EXCEPT ![Len(stack)] =
                       [@ EXCEPT !.id = Top.next, !.next = After(Top.next, sharedattribute_list),
                                 !.pc = IF IsSet(Top.next) THEN "call" ELSE "step"]]
  /\ UNCHANGED <<network, alive, queue, lists, history, set, requested, heard, cut>>

\* on_set returns; 1 and 2 end the walk.
ReturnFromSet ==
  /\ ~fault
  /\ IsTop("set", "call")
  /\ \/ /\ Top.result # 0
        /\ LeaveWalk
        /\ fault' = ~alive
        /\ cut' = TRUE
     \/ /\ Top.result = 0
        /\ stack' = [stack EXCEPT ![Len(stack)].pc = "step"]
        /\ UNCHANGED <<fault, cut>>
  /\ UNCHANGED <<network, alive, queue, lists, history, set, requested, device, heard>>

-----------------------------------------------------------------------------
(* The steps of Subscriptions, with the set left alone.                    *)

\* The answer to a request; the server knows values of some of its keys.  If it
\* knows none, the walk calls nothing, and is left out.
MqttResponse(K) ==
  \E asked \in requested :
    /\ K \subseteq asked
    /\ Connected /\ sent < MaxMessages
    /\ sent' = sent + 1
    /\ Post([type |-> "RESPONSE", keys |-> K, number |-> sent + 1])
    /\ requested' = requested \ {asked}
    /\ UNCHANGED <<network, alive, lists, stack, fault, session, missed, ignored, intruded,
                   set, values>>

\* Requests do not outlive their connection.
ConnectionLost ==
  /\ MqttDisconnected \/ tbcm_disconnect
  /\ requested' = {}
  /\ UNCHANGED <<set, values>>

\* A walk of the subscriptions starts, and may end early.
SubscriptionsWalk ==
  /\ \/ /\ OnUpdate
        /\ Hear(Head(queue).keys, Head(queue).number)
        /\ UNCHANGED cut
     \/ /\ ReturnFromUpdate
        /\ Top.pc = "call" => Top.id \notin ours
        /\ cut' = (cut \/ EndsWalk(Top.id, Top.result))
        /\ UNCHANGED heard
  /\ UNCHANGED <<set, requested, device>>

\* The application unsubscribes its own entries, not those of the set.
Application ==
  \/ \E t \in Tasks, K \in Interests : tbcmh_attributes_subscribe(t, K)
  \/ \E t \in Tasks, id \in Entry \ ours : tbcmh_attributes_unsubscribe(t, id)
  \/ tbcmh_connect
  \/ tbcmh_disconnect
  \/ tbcmh_destroy

SubscriptionsStep ==
  /\ IsTop("update", "call") => Top.id \notin ours
  /\ \/ MqttConnected
     \/ \E K \in (SUBSET Key) \ {{}} : MqttUpdate(K)
     \/ Application
     \/ FinishDisconnect
     \/ FinishDestroy
     \/ OnConnected
     \/ OnDisconnected
     \/ ReturnFromEvent
     \/ WalkOn
  /\ UNCHANGED <<set, requested, values>>

SetStep ==
  \/ \E k \in Key : tbce_sharedattributes_register(k)
  \/ \E k \in Key : tbce_sharedattributes_unregister(k)
  \/ tbce_sharedattributes_subscribe
  \/ tbce_sharedattributes_unsubscribe
  \/ tbce_sharedattributes_initialized
  \/ tbce_sharedattributes_destroy
  \/ OnUpdateOfSet
  \/ OnInitialized
  \/ WalkSet
  \/ ReturnFromSet

NextSet ==
  \/ SetStep
  \/ \E K \in (SUBSET Key) \ {{}} : MqttResponse(K)
  \/ ConnectionLost
  \/ SubscriptionsWalk
  \/ SubscriptionsStep

SpecSet == InitSet /\ [][NextSet]_allVars

-----------------------------------------------------------------------------
(* Properties.                                                             *)

\* Types of the variables.
TypeOKSet ==
  /\ TypeOK
  /\ sharedattribute_list \subseteq Entry
  /\ key \in [Entry -> Key]
  /\ subscribe_id \in [Entry -> Entry \cup {NotSubscribed}]
  /\ client \in {"NULL", "client", "gone"}
  /\ registered \in 0..MaxEntries
  /\ ours \subseteq Entry
  /\ requested \subseteq SUBSET Key
  /\ device \in [Key -> Nat] /\ heard \in [Key -> Nat]
  /\ cut \in BOOLEAN

\* A subscribed attribute of a set in use has an entry in the list of the
\* client, of its own key: through batches, unregistering, unsubscribing and
\* subscribing again, its subscribe_id is never stale.
AttributesAreListed ==
  client = "client" /\ alive =>
    \A n \in Subscribed :
      /\ subscribe_id[n] \in attributessubscribe_list
      /\ key[n] \in keys[subscribe_id[n]]

\* Between two calls of tbcmh_run the device has the value of the last message
\* that was handled, for each attribute that was subscribed then: unless a
\* callback ended a walk early, or its result was ignored.  In the second case
\* an outer walk delivers an older message after a newer one.
DeviceIsUpToDate ==
  stack = << >> /\ ~cut /\ ~ignored => \A k \in Watched : device[k] >= heard[k]
=============================================================================
