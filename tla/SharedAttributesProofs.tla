------------------------ MODULE SharedAttributesProofs ------------------------
(***************************************************************************)
(* Proofs about SharedAttributes: for every set of keys, all batch sizes   *)
(* and all bounds.  The steps that leave the set alone are steps of        *)
(* Subscriptions, and the facts proved of those hold here too.             *)
(***************************************************************************)
EXTENDS SharedAttributes, SubscriptionsProofs, FiniteSetTheorems
-----------------------------------------------------------------------------
(* Batches.                                                                *)

\* How many attributes of S come before n, itself included.
Rank(n, S) == Cardinality({m \in S : m <= n})

\* Each attribute has a rank of its own, and the ranks leave no gap.
LEMMA RanksAre ==
  ASSUME NEW S \in SUBSET Int, IsFiniteSet(S)
  PROVE  /\ \A n \in S : Rank(n, S) \in 1..Cardinality(S)
         /\ \A r \in 1..Cardinality(S) : \E n \in S : Rank(n, S) = r
<1> DEFINE UpTo(a) == {c \in S : c <= a}
           rank == [n \in S |-> Rank(n, S)]
           N == Cardinality(S)
<1>1. \A a \in S : /\ UpTo(a) \subseteq S /\ IsFiniteSet(UpTo(a)) /\ a \in UpTo(a)
                   /\ Cardinality(UpTo(a)) \in Nat /\ Cardinality(UpTo(a)) <= N
                   /\ Cardinality(UpTo(a)) # 0
  BY FS_Subset, FS_CardinalityType, FS_EmptySet
<1>2. N \in Nat
  BY FS_CardinalityType
<1>3. ASSUME NEW a \in S, NEW d \in S, a < d
      PROVE  Cardinality(UpTo(a)) # Cardinality(UpTo(d))
  <2>0. a \in Int /\ d \in Int /\ ~(d <= a)
    BY <1>3
  <2>1. \A c \in S : c <= a => c <= d
    BY <1>3, <2>0
  <2>2. UpTo(a) \subseteq UpTo(d)
    BY <2>1
  <2>3. d \in UpTo(d)
    BY <1>1
  <2>4. d \notin UpTo(a)
    BY <2>0
  <2> HIDE DEF UpTo
  <2> QED BY <1>1, <2>2, <2>3, <2>4, FS_Subset
<1>4. \A a, d \in S : Cardinality(UpTo(a)) = Cardinality(UpTo(d)) => a = d
  BY <1>3
<1>5. \A a \in S : rank[a] = Cardinality(UpTo(a))
  BY DEF Rank
<1> HIDE DEF UpTo
<1>6. \A n \in S : rank[n] \in 1..N
  BY <1>1, <1>2, <1>5
<1>7. rank \in Injection(S, 1..N)
  BY <1>4, <1>5, <1>6 DEF Injection, IsInjective
<1>8. IsFiniteSet(1..N) /\ Cardinality(1..N) = N
  BY <1>2, FS_Interval
<1> HIDE DEF rank
<1>9. rank \in Surjection(S, 1..N)
  BY <1>7, <1>8, FS_Injection
<1>10. \A r \in 1..N : \E n \in S : rank[n] = r
  BY <1>9 DEF Surjection
<1> QED BY <1>6, <1>10 DEF rank

\* What division gives for the sizes of a batch.
LEMMA Divided ==
  ASSUME NEW M \in 1..10, NEW r \in Nat \ {0}
  PROVE  /\ (r - 1) \div M \in Nat
         /\ \A b \in 0..((r - 1) \div M) : b * M + 1 \in 1..r /\ ((b * M + 1) - 1) \div M = b
<1>1. CASE M = 1
  BY <1>1
<1>2. CASE M = 2
  BY <1>2
<1>3. CASE M = 3
  BY <1>3
<1>4. CASE M = 4
  BY <1>4
<1>5. CASE M = 5
  BY <1>5
<1>6. CASE M = 6
  BY <1>6
<1>7. CASE M = 7
  BY <1>7
<1>8. CASE M = 8
  BY <1>8
<1>9. CASE M = 9
  BY <1>9
<1>10. CASE M = 10
  BY <1>10
<1> QED BY <1>1, <1>2, <1>3, <1>4, <1>5, <1>6, <1>7, <1>8, <1>9, <1>10

\* The attributes that are not subscribed yet, the entries that subscribe makes
\* for them, and the entry of each.
New == sharedattribute_list \ Subscribed
EntryOf(n) == made.attributes + 1 + Batch(n, New, MaxPerSubscribe)
NewEntries == {EntryOf(n) : n \in New}

\* The entries are numbered on, without a gap.
LEMMA EntriesAreNext ==
  ASSUME sharedattribute_list \subseteq Entry, made.attributes \in Nat
  PROVE  /\ IsFiniteSet(NewEntries)
         /\ Cardinality(NewEntries) \in Nat
         /\ \A e \in NewEntries : e \in (made.attributes + 1)..(made.attributes + Cardinality(NewEntries))
<1>1. New \in SUBSET Int /\ IsFiniteSet(New)
  <2>1. MaxEntries \in Int /\ Entry \subseteq Int
    BY SubscriptionsAssumption DEF Entry
  <2>3. New \subseteq Entry
    BY DEF New
  <2>2. IsFiniteSet(Entry)
    BY <2>1, FS_Interval DEF Entry
  <2> QED BY <2>1, <2>2, <2>3, FS_Subset
<1> DEFINE N == Cardinality(New)
           M == MaxPerSubscribe
           B(n) == Batch(n, New, M)
<1>2. N \in Nat /\ M \in 1..10
  BY <1>1, FS_CardinalityType, SharedAttributesAssumption
<1>3. \A n \in New : B(n) = (Rank(n, New) - 1) \div M
  BY DEF Batch, Rank
<1>4. \A n \in New : Rank(n, New) \in Nat \ {0}
  BY <1>1, <1>2, RanksAre
<1>5. \A n \in New : B(n) \in Nat
  BY <1>2, <1>3, <1>4, Divided
<1>6. ASSUME NEW n \in New, NEW b \in 0..B(n) PROVE \E m \in New : B(m) = b
  <2>1. b * M + 1 \in 1..Rank(n, New) /\ ((b * M + 1) - 1) \div M = b
    BY <1>2, <1>3, <1>4, Divided
  <2>2. Rank(n, New) \in 1..N
    BY <1>1, RanksAre
  <2>3. b * M + 1 \in 1..N
    BY <1>2, <2>1, <2>2
  <2>4. PICK m \in New : Rank(m, New) = b * M + 1
    BY <1>1, <2>3, RanksAre
  <2>5. B(m) = (Rank(m, New) - 1) \div M
    BY <1>3
  <2> HIDE DEF B, M
  <2>6. B(m) = b
    BY <2>1, <2>4, <2>5, Zenon
  <2> QED BY <2>6
<1> HIDE DEF B, M
<1> DEFINE a == made.attributes
<1>7. NewEntries = {a + 1 + B(n) : n \in New}
  BY DEF NewEntries, EntryOf, B, M
<1>8. IsFiniteSet(NewEntries)
  <2> DEFINE f == [n \in New |-> a + 1 + B(n)]
  <2>1. f \in Surjection(New, NewEntries)
    BY <1>7 DEF Surjection
  <2> QED BY <1>1, <2>1, FS_Surjection
<1>9. Cardinality(NewEntries) \in Nat
  BY <1>8, FS_CardinalityType
<1>10. ASSUME NEW n \in New PROVE B(n) + 1 <= Cardinality(NewEntries)
  <2>1. (a + 1)..(a + 1 + B(n)) \subseteq NewEntries
    <3> SUFFICES ASSUME NEW e \in (a + 1)..(a + 1 + B(n)) PROVE e \in NewEntries
      OBVIOUS
    <3>1. e - a - 1 \in 0..B(n) /\ e = a + 1 + (e - a - 1)
      BY <1>5
    <3>2. PICK m \in New : B(m) = e - a - 1
      BY <1>6, <3>1
    <3> QED BY <1>7, <3>1, <3>2
  <2>2. Cardinality((a + 1)..(a + 1 + B(n))) = B(n) + 1
    BY <1>5, FS_Interval
  <2>3. Cardinality((a + 1)..(a + 1 + B(n))) <= Cardinality(NewEntries)
    BY <1>8, <2>1, FS_Subset
  <2> QED BY <2>2, <2>3
<1>11. ASSUME NEW e \in NewEntries PROVE e \in (a + 1)..(a + Cardinality(NewEntries))
  <2>1. PICK n \in New : e = a + 1 + B(n)
    BY <1>7
  <2>2. B(n) \in Nat /\ B(n) + 1 <= Cardinality(NewEntries)
    BY <1>5, <1>10
  <2> QED BY <1>9, <2>1, <2>2
<1> QED BY <1>8, <1>9, <1>11
-----------------------------------------------------------------------------
(* Types.                                                                  *)

SetType ==
  /\ sharedattribute_list \subseteq Entry
  /\ key \in [Entry -> Key]
  /\ subscribe_id \in [Entry -> Entry \cup {NotSubscribed}]
  /\ client \in {"NULL", "client", "gone"}
  /\ registered \in 0..MaxEntries
  /\ ours \subseteq Entry
  /\ requested \subseteq SUBSET Key

ValuesType == device \in [Key -> Nat] /\ heard \in [Key -> Nat] /\ cut \in BOOLEAN

LEMMA TypesAre == TypeOKSet <=> TypeOK /\ SetType /\ ValuesType
BY DEF TypeOKSet, SetType, ValuesType

\* The steps of the set that are no steps of Subscriptions.
Quiet ==
  \/ \E k \in Key : tbce_sharedattributes_register(k)
  \/ tbce_sharedattributes_initialized
  \/ tbce_sharedattributes_destroy

LEMMA QuietIs == Quiet => UNCHANGED vars
BY DEF Quiet, tbce_sharedattributes_register, tbce_sharedattributes_initialized,
       tbce_sharedattributes_destroy

LEMMA OthersAre == ConnectionLost \/ SubscriptionsWalk \/ SubscriptionsStep => Next
<1>1. ConnectionLost => Next
  BY DEF ConnectionLost, Next, Environment, Run
<1>2. SubscriptionsWalk => Next
  BY DEF SubscriptionsWalk, Next, Run
<1>3. SubscriptionsStep => Next
  <2>1. Application => Next
    BY SubscriptionsAssumption DEF Application, Next, Api, Control
  <2>2. MqttConnected => Next
    BY DEF Next, Environment
  <2>3. ASSUME NEW K \in (SUBSET Key) \ {{}} PROVE MqttUpdate(K) => Next
    BY DEF Next, Environment
  <2>4. FinishDisconnect \/ FinishDestroy \/ OnConnected \/ OnDisconnected \/ ReturnFromEvent
          \/ WalkOn => Next
    BY DEF Next, Run
  <2> QED BY <2>1, <2>2, <2>3, <2>4, Zenon DEF SubscriptionsStep
<1> QED BY <1>1, <1>2, <1>3

\* What the Runner changes when it walks the set.
LEMMA RunnerTypes ==
  ASSUME TypeOK, UNCHANGED <<network, alive, lists, history>>,
         stack' \in Seq(Frame), QueueType', fault' \in BOOLEAN
  PROVE  TypeOK'
<1>1. NetworkType' /\ HistoryType' /\ ListsType'
  BY DEF TypeOK, NetworkType, network, HistoryType, history, ListsType, lists
<1>2. RunnerType'
  BY DEF TypeOK, RunnerType, QueueType
<1> QED BY <1>1, <1>2 DEF TypeOK

\* A walk of the set.
LEMMA WalkIs ==
  ASSUME NEW K \in SUBSET Key, NEW number \in Nat, sharedattribute_list \subseteq Entry
  PROVE  /\ Walk(K, number) \in Frame
         /\ Walk(K, number).kind = "set" /\ Walk(K, number).pc = "step"
         /\ Walk(K, number).keys = K /\ Walk(K, number).number = number
         /\ Walk(K, number).next = After(End, sharedattribute_list)
         /\ Walk(K, number).result = 0
         /\ After(End, sharedattribute_list) \in sharedattribute_list \cup {End}
<1>1. sharedattribute_list \in SUBSET Nat /\ End \in Nat
  BY SubscriptionsAssumption DEF Entry, End
<1> DEFINE n == After(End, sharedattribute_list)
<1>2. n \in sharedattribute_list \cup {End}
  BY <1>1, AfterIsListed
<1> HIDE DEF n
<1> DEFINE f == Call("set", "step")
           g == [f EXCEPT !.keys = K]
           h == [g EXCEPT !.number = number]
<1>3. Walk(K, number) = [h EXCEPT !.next = n]
  BY DEF Walk, n
<1>4. f \in Frame /\ f.kind = "set" /\ f.pc = "step" /\ f.result = 0
  BY CallIsFrame DEF Call
<1> HIDE DEF f
<1>5. g \in Frame
  BY <1>4, FrameChanged
<1>6. g.kind = "set" /\ g.pc = "step" /\ g.result = 0 /\ g.keys = K
  BY <1>4 DEF Frame
<1> HIDE DEF g
<1>7. h \in Frame
  BY <1>5, FrameChanged
<1>8. h.kind = "set" /\ h.pc = "step" /\ h.result = 0 /\ h.keys = K /\ h.number = number
  BY <1>5, <1>6 DEF Frame
<1> HIDE DEF h
<1>9. [h EXCEPT !.next = n] \in Frame
  BY <1>2, <1>7, FrameChanged
<1>10. /\ [h EXCEPT !.next = n].kind = "set" /\ [h EXCEPT !.next = n].pc = "step"
       /\ [h EXCEPT !.next = n].result = 0 /\ [h EXCEPT !.next = n].keys = K
       /\ [h EXCEPT !.next = n].number = number /\ [h EXCEPT !.next = n].next = n
  BY <1>7, <1>8 DEF Frame
<1> QED BY <1>2, <1>3, <1>9, <1>10 DEF n

\* The walk of the set leaves for its caller.
LEMMA LeaveWalkIs ==
  ASSUME stack \in Seq(Frame), stack # << >>, LeaveWalk
  PROVE  /\ stack' \in Seq(Frame) /\ Len(stack') = Len(stack) - 1
         /\ \A i \in 1..Len(stack) - 2 : stack'[i] = stack[i]
         /\ Len(stack) > 1 =>
              stack'[Len(stack) - 1] =
                IF stack[Len(stack) - 1].pc = "return"
                THEN [stack[Len(stack) - 1] EXCEPT !.result = Top.result]
                ELSE stack[Len(stack) - 1]
<1>1. /\ Len(stack) \in Nat \ {0} /\ Top \in Frame /\ Top.result \in 0..2
      /\ Below \in Seq(Frame) /\ Len(Below) = Len(stack) - 1
      /\ \A i \in 1..Len(stack) - 1 : Below[i] = stack[i]
  BY TopIs, Popped DEF Below, Frame
<1>2. CASE Len(stack) > 1 /\ stack[Len(stack) - 1].pc = "return"
  <2> DEFINE n == Len(Below)
             g == [Below[n] EXCEPT !.result = Top.result]
  <2>1. stack' = [Below EXCEPT ![n] = g]
    BY <1>2 DEF LeaveWalk
  <2>2. n \in Nat \ {0} /\ Below # << >> /\ Below[n] \in Frame /\ Below[n] = stack[Len(stack) - 1]
    BY <1>1, <1>2
  <2>3. g \in Frame
    BY <1>1, <2>2, FrameChanged
  <2>4. /\ [Below EXCEPT ![n] = g] \in Seq(Frame)
        /\ Len([Below EXCEPT ![n] = g]) = n
        /\ [Below EXCEPT ![n] = g][n] = g
        /\ \A i \in 1..n : i # n => [Below EXCEPT ![n] = g][i] = Below[i]
    <3> HIDE DEF g
    <3> QED BY <1>1, <2>2, <2>3, TopChanged
  <2> QED BY <1>1, <1>2, <2>1, <2>2, <2>4
<1>3. CASE ~(Len(stack) > 1 /\ stack[Len(stack) - 1].pc = "return")
  <2>1. stack' = Below
    BY <1>3 DEF LeaveWalk
  <2> QED BY <1>1, <1>3, <2>1
<1> QED BY <1>2, <1>3
\* What tbce_sharedattributes_subscribe does.
LEMMA SubscribeIs ==
  ASSUME TypeOKSet, tbce_sharedattributes_subscribe
  PROVE  /\ NewEntries \subseteq Entry
         /\ Cardinality(NewEntries) \in Nat
         /\ \A e \in NewEntries :
              e \in (made.attributes + 1)..(made.attributes + Cardinality(NewEntries))
         /\ made.attributes + Cardinality(NewEntries) \in 0..MaxEntries
         /\ made' = [made EXCEPT !.attributes = made.attributes + Cardinality(NewEntries)]
         /\ keys' \in [Entry -> SUBSET Key]
         /\ \A n \in New : EntryOf(n) \in NewEntries /\ key[n] \in keys'[EntryOf(n)]
         /\ \A e \in Entry \ NewEntries : keys'[e] = keys[e]
         /\ attributessubscribe_list' = attributessubscribe_list \cup NewEntries
         /\ topics' = topics \/ topics' = TopicAdded("attributes", attributessubscribe_list)
         /\ subscribe_id' = [n \in Entry |-> IF n \in New THEN EntryOf(n) ELSE subscribe_id[n]]
         /\ ours' = ours \cup NewEntries
         /\ client # "gone" /\ client' = "client"
         /\ stack # << >> => Top.kind = "event"
         /\ UNCHANGED <<state, started, alive, queue, serverrpc_list, method, stack, fault, history,
                        sharedattribute_list, key, registered, requested, values>>
<1> DEFINE id == [n \in New |-> EntryOf(n)]
           entries == {id[n] : n \in New}
<1>1. entries = NewEntries
  BY DEF NewEntries
<1>2. /\ entries \subseteq Entry
      /\ made' = [made EXCEPT !.attributes = @ + Cardinality(entries)]
      /\ keys' = [e \in Entry |-> IF e \in entries THEN {key[n] : n \in {m \in New : id[m] = e}}
                                  ELSE keys[e]]
      /\ attributessubscribe_list' = attributessubscribe_list \cup entries
      /\ topics' = IF entries = {} THEN topics
                   ELSE TopicAdded("attributes", attributessubscribe_list)
      /\ subscribe_id' = BatchesSubscribed(New, id)
      /\ ours' = ours \cup entries
      /\ client # "gone" /\ client' = "client"
      /\ stack # << >> => Top.kind = "event"
      /\ UNCHANGED <<state, started, alive, queue, serverrpc_list, method, stack, fault, history,
                     sharedattribute_list, key, registered, requested, values>>
  BY Zenon DEF tbce_sharedattributes_subscribe, New, EntryOf
<1> HIDE DEF entries
<1>3. /\ sharedattribute_list \subseteq Entry /\ New \subseteq Entry
      /\ key \in [Entry -> Key] /\ keys \in [Entry -> SUBSET Key]
      /\ made.attributes \in 0..MaxEntries
  BY DEF TypeOKSet, TypeOK, ListsType, New
<1>4. MaxEntries \in Nat /\ made.attributes \in Nat
  BY <1>3, SubscriptionsAssumption
<1>5. /\ IsFiniteSet(NewEntries) /\ Cardinality(NewEntries) \in Nat
      /\ \A e \in NewEntries :
           e \in (made.attributes + 1)..(made.attributes + Cardinality(NewEntries))
  BY <1>3, <1>4, EntriesAreNext
<1>6. made.attributes + Cardinality(NewEntries) \in 0..MaxEntries
  <2>1. NewEntries \subseteq (made.attributes + 1)..MaxEntries
    <3> SUFFICES ASSUME NEW e \in NewEntries PROVE e \in (made.attributes + 1)..MaxEntries
      OBVIOUS
    <3>1. e \in Entry /\ e \in (made.attributes + 1)..(made.attributes + Cardinality(NewEntries))
      BY <1>1, <1>2, <1>5
    <3> QED BY <1>4, <1>5, <3>1 DEF Entry
  <2> DEFINE T == (made.attributes + 1)..MaxEntries
  <2>2. IsFiniteSet(T) /\ Cardinality(T) = MaxEntries - made.attributes
    <3> DEFINE a == made.attributes + 1
    <3>1. a \in Int /\ MaxEntries \in Int
      BY <1>4
    <3>2. IsFiniteSet(a..MaxEntries)
          /\ Cardinality(a..MaxEntries) = IF a > MaxEntries THEN 0 ELSE MaxEntries - a + 1
      <4> HIDE DEF a
      <4> QED BY <3>1, FS_Interval
    <3> QED BY <1>3, <1>4, <3>2
  <2>3. Cardinality(NewEntries) <= Cardinality(T)
    BY <2>1, <2>2, FS_Subset
  <2> QED BY <1>4, <1>5, <2>2, <2>3
<1>7. \A n \in New : id[n] = EntryOf(n) /\ EntryOf(n) \in NewEntries
  BY DEF NewEntries
<1> HIDE DEF id
<1>8. ASSUME NEW n \in New PROVE key[n] \in keys'[EntryOf(n)]
  <2>1. EntryOf(n) \in entries /\ EntryOf(n) \in Entry /\ n \in {m \in New : id[m] = EntryOf(n)}
    BY <1>1, <1>2, <1>7
  <2> QED BY <1>2, <2>1
<1>9. keys' \in [Entry -> SUBSET Key]
  <2>1. ASSUME NEW e \in Entry PROVE {key[n] : n \in {m \in New : id[m] = e}} \in SUBSET Key
    BY <1>3
  <2> QED BY <1>2, <1>3, <2>1
<1>10. subscribe_id' = [n \in Entry |-> IF n \in New THEN EntryOf(n) ELSE subscribe_id[n]]
  BY <1>2, <1>7 DEF BatchesSubscribed
<1>11. \A e \in Entry \ NewEntries : keys'[e] = keys[e]
  BY <1>1, <1>2
<1>12. made' = [made EXCEPT !.attributes = made.attributes + Cardinality(NewEntries)]
  BY <1>1, <1>2
<1> QED BY <1>1, <1>2, <1>5, <1>6, <1>7, <1>8, <1>9, <1>10, <1>11, <1>12, Zenon

\* The set.
LEMMA SetTypeStep == TypeOKSet /\ [NextSet]_allVars => SetType'
<1> SUFFICES ASSUME TypeOKSet, [NextSet]_allVars PROVE SetType'
  OBVIOUS
<1>0. SetType
  BY TypesAre
<1> USE DEF SetType, set
<1>1. ASSUME NEW k \in Key, tbce_sharedattributes_register(k) PROVE SetType'
  <2> DEFINE n == registered + 1
  <2>1. /\ n \in Entry /\ registered' = n /\ key' = [key EXCEPT ![n] = k]
        /\ sharedattribute_list' = sharedattribute_list \cup {n}
        /\ UNCHANGED <<subscribe_id, client, ours, requested>>
    BY <1>1 DEF tbce_sharedattributes_register
  <2>2. n \in 0..MaxEntries
    BY <2>1, SubscriptionsAssumption DEF Entry
  <2> HIDE DEF n
  <2> QED BY <1>0, <2>1, <2>2
<1>2. ASSUME NEW k \in Key, tbce_sharedattributes_unregister(k) PROVE SetType'
  BY <1>0, <1>2 DEF tbce_sharedattributes_unregister
<1>3. CASE tbce_sharedattributes_subscribe
  <2>1. ASSUME NEW n \in Entry
        PROVE  (IF n \in New THEN EntryOf(n) ELSE subscribe_id[n]) \in Entry \cup {NotSubscribed}
    BY <1>0, <1>3, SubscribeIs
  <2>2. subscribe_id' \in [Entry -> Entry \cup {NotSubscribed}]
    BY <1>3, <2>1, SubscribeIs
  <2> QED BY <1>0, <1>3, <2>2, SubscribeIs
<1>4. CASE tbce_sharedattributes_unsubscribe
  BY <1>0, <1>4 DEF tbce_sharedattributes_unsubscribe, IdsReset
<1>5. CASE tbce_sharedattributes_initialized
  <2>1. \A n, m : m \in sharedattribute_list => key[m] \in Key
    BY <1>0
  <2>2. requested' \subseteq SUBSET Key
    BY <1>0, <1>5, <2>1 DEF tbce_sharedattributes_initialized
  <2> QED BY <1>0, <1>5, <2>2 DEF tbce_sharedattributes_initialized
<1>6. CASE tbce_sharedattributes_destroy
  BY <1>0, <1>6 DEF tbce_sharedattributes_destroy
<1>7. CASE OnUpdateOfSet \/ OnInitialized \/ WalkSet \/ ReturnFromSet
  BY <1>0, <1>7 DEF OnUpdateOfSet, OnInitialized, WalkSet, ReturnFromSet
<1>8. ASSUME NEW K, MqttResponse(K) PROVE SetType'
  BY <1>0, <1>8 DEF MqttResponse
<1>9. CASE ConnectionLost \/ SubscriptionsWalk \/ SubscriptionsStep
  BY <1>0, <1>9 DEF ConnectionLost, SubscriptionsWalk, SubscriptionsStep
<1>10. CASE UNCHANGED allVars
  BY <1>0, <1>10 DEF allVars
<1> QED BY <1>1, <1>2, <1>3, <1>4, <1>5, <1>6, <1>7, <1>8, <1>9, <1>10 DEF NextSet, SetStep
\* The next attribute of a walk.
LEMMA WalkSetIs ==
  ASSUME TypeOKSet, WalkSet, Top.next # End
  PROVE  \E f \in Frame :
           /\ stack' = [stack EXCEPT ![Len(stack)] = f]
           /\ f.kind = "set" /\ f.id = Top.next
           /\ f.next = After(Top.next, sharedattribute_list)
           /\ f.next \in sharedattribute_list \cup {End}
           /\ f.pc = (IF IsSet(Top.next) THEN "call" ELSE "step")
           /\ f.keys = Top.keys /\ f.number = Top.number /\ f.result = Top.result
<1>1. /\ stack \in Seq(Frame) /\ stack # << >> /\ Top.kind = "set"
      /\ stack' = [stack EXCEPT ![Len(stack)] =
                     [@ EXCEPT !.id = Top.next, !.next = After(Top.next, sharedattribute_list),
                               !.pc = IF IsSet(Top.next) THEN "call" ELSE "step"]]
  BY DEF TypeOKSet, TypeOK, RunnerType, WalkSet, IsTop
<1>2. Top \in Frame
  BY <1>1, TopIs
<1>3. Top.next \in Entry \cup {End} /\ Top.next \in Nat /\ sharedattribute_list \in SUBSET Nat
      /\ sharedattribute_list \subseteq Entry
  BY <1>2, SubscriptionsAssumption DEF TypeOKSet, Frame, Entry, End
<1> DEFINE n == After(Top.next, sharedattribute_list)
           p == IF IsSet(Top.next) THEN "call" ELSE "step"
<1>4. n \in sharedattribute_list \cup {End}
  BY <1>3, AfterIsListed
<1>5. p \in {"call", "step", "return"}
  OBVIOUS
<1> DEFINE g == [Top EXCEPT !.id = Top.next]
           h == [g EXCEPT !.next = n]
           k == [h EXCEPT !.pc = p]
<1>6. stack' = [stack EXCEPT ![Len(stack)] = k]
  BY <1>1 DEF Top
<1> HIDE DEF n, p
<1>7. g \in Frame
  BY <1>2, <1>3, FrameChanged
<1>8. /\ g.id = Top.next /\ g.kind = Top.kind /\ g.keys = Top.keys /\ g.number = Top.number
      /\ g.result = Top.result
  BY <1>2 DEF Frame
<1> HIDE DEF g
<1>9. h \in Frame
  BY <1>3, <1>4, <1>7, FrameChanged
<1>10. /\ h.id = Top.next /\ h.kind = Top.kind /\ h.keys = Top.keys /\ h.number = Top.number
       /\ h.result = Top.result /\ h.next = n
  BY <1>7, <1>8 DEF Frame
<1> HIDE DEF h
<1>11. k \in Frame
  BY <1>5, <1>9, FrameChanged
<1>12. /\ k.id = Top.next /\ k.kind = Top.kind /\ k.keys = Top.keys /\ k.number = Top.number
       /\ k.result = Top.result /\ k.next = n /\ k.pc = p
  BY <1>9, <1>10 DEF Frame
<1> HIDE DEF k
<1> QED BY <1>1, <1>4, <1>6, <1>11, <1>12 DEF n, p

\* What a response carries.
LEMMA ResponseIs ==
  ASSUME NEW e \in Event, e.type = "RESPONSE"
  PROVE  e.keys \in SUBSET Key /\ e.number \in Nat
BY DEF Event

\* The types of Subscriptions, in the steps that are not its own.
LEMMA TypeOKStep == TypeOKSet /\ [NextSet]_allVars => TypeOK'
<1> SUFFICES ASSUME TypeOKSet, [NextSet]_allVars PROVE TypeOK'
  OBVIOUS
<1>0. /\ TypeOK /\ SetType /\ NetworkType /\ ListsType /\ RunnerType /\ HistoryType
      /\ QueueType /\ stack \in Seq(Frame) /\ alive \in BOOLEAN /\ fault \in BOOLEAN
  BY TypesAre DEF TypeOK, RunnerType, QueueType
<1>1. CASE [Next]_vars
  BY <1>0, <1>1, TypeStep
<1>2. ASSUME NEW k \in Key, tbce_sharedattributes_unregister(k) PROVE TypeOK'
  <2>1. WillReturn(Runner, 1) \in Seq(Frame)
    BY <1>0, WillReturnIs
  <2> QED BY <1>0, <1>2, <2>1, RunnerTypes DEF tbce_sharedattributes_unregister, QueueType
<1>3. CASE tbce_sharedattributes_subscribe
  <2>1. NetworkType'
    BY <1>0, <1>3, SubscribeIs DEF NetworkType, TopicAdded
  <2>2. ListsType'
    BY <1>0, <1>3, SubscribeIs DEF ListsType
  <2>3. UNCHANGED <<alive, queue, stack, fault, history>>
    BY <1>3, SubscribeIs
  <2> QED BY <1>0, <2>1, <2>2, <2>3 DEF TypeOK, RunnerType, HistoryType, history
<1>4. CASE tbce_sharedattributes_unsubscribe
  <2>1. NetworkType'
    BY <1>0, <1>4 DEF tbce_sharedattributes_unsubscribe, NetworkType, TopicRemoved
  <2>2. ListsType'
    BY <1>0, <1>4 DEF tbce_sharedattributes_unsubscribe, ListsType
  <2>3. UNCHANGED <<alive, queue, stack, fault, history>>
    BY <1>4 DEF tbce_sharedattributes_unsubscribe
  <2> QED BY <1>0, <2>1, <2>2, <2>3 DEF TypeOK, RunnerType, HistoryType, history
<1>5. CASE OnUpdateOfSet
  <2> DEFINE g == [Top EXCEPT !.pc = "return"]
             f == Walk(Top.keys, Top.number)
  <2>1. stack # << >> /\ stack' = Append([stack EXCEPT ![Len(stack)] = g], f)
    BY <1>5 DEF OnUpdateOfSet, IsTop, Top
  <2>2. Top \in Frame
    BY <1>0, <2>1, TopIs
  <2>3. f \in Frame
    BY <1>0, <2>2, WalkIs DEF Frame, SetType
  <2>4. g \in Frame
    BY <2>2, FrameChanged
  <2> HIDE DEF f, g
  <2>5. [stack EXCEPT ![Len(stack)] = g] \in Seq(Frame)
    BY <1>0, <2>1, <2>4, TopChanged
  <2>6. stack' \in Seq(Frame)
    BY <2>1, <2>3, <2>5, Pushed
  <2> QED BY <1>0, <1>5, <2>6, RunnerTypes DEF OnUpdateOfSet, QueueType
<1>6. CASE OnInitialized
  <2>1. Receive("RESPONSE")
    BY <1>6 DEF OnInitialized
  <2>2. QueueType' /\ Head(queue) \in Event /\ Head(queue).type = "RESPONSE"
    BY <1>0, <2>1, ReceiveIs
  <2> DEFINE f == Walk(Head(queue).keys, Head(queue).number)
  <2>3. f \in Frame
    BY <1>0, <2>2, ResponseIs, WalkIs DEF SetType
  <2>4. stack' = Append(stack, f)
    BY <1>6 DEF OnInitialized, Push
  <2> HIDE DEF f
  <2>5. stack' \in Seq(Frame)
    BY <1>0, <2>3, <2>4, Pushed
  <2> QED BY <1>0, <1>6, <2>2, <2>5, RunnerTypes DEF OnInitialized
<1>7. CASE WalkSet
  <2>1. UNCHANGED <<network, alive, lists, history, queue>> /\ stack # << >>
    BY <1>7 DEF WalkSet, IsTop
  <2>2. stack' \in Seq(Frame) /\ fault' \in BOOLEAN
    <3>1. CASE Top.next = End /\ LeaveWalk /\ fault' = ~alive
      BY <1>0, <2>1, <3>1, LeaveWalkIs
    <3>2. CASE Top.next # End /\ fault' = (Top.next \notin sharedattribute_list)
      BY <1>0, <1>7, <2>1, <3>2, WalkSetIs, TopIs
    <3> QED BY <1>7, <3>1, <3>2 DEF WalkSet
  <2> QED BY <1>0, <2>1, <2>2, RunnerTypes DEF QueueType
<1>8. CASE ReturnFromSet
  <2>1. UNCHANGED <<network, alive, lists, history, queue>> /\ stack # << >>
    BY <1>8 DEF ReturnFromSet, IsTop
  <2>2. stack' \in Seq(Frame) /\ fault' \in BOOLEAN
    <3>1. CASE LeaveWalk /\ fault' = ~alive
      BY <1>0, <2>1, <3>1, LeaveWalkIs
    <3>2. CASE stack' = [stack EXCEPT ![Len(stack)].pc = "step"] /\ UNCHANGED fault
      <4>1. [Top EXCEPT !.pc = "step"] \in Frame
        BY <1>0, <2>1, TopIs, FrameChanged
      <4>2. stack' = [stack EXCEPT ![Len(stack)] = [Top EXCEPT !.pc = "step"]]
        BY <3>2 DEF Top
      <4> QED BY <1>0, <2>1, <3>2, <4>1, <4>2, TopIs
    <3> QED BY <1>8, <3>1, <3>2 DEF ReturnFromSet
  <2> QED BY <1>0, <2>1, <2>2, RunnerTypes DEF QueueType
<1>9. ASSUME NEW K, MqttResponse(K) PROVE TypeOK'
  <2> DEFINE e == [type |-> "RESPONSE", keys |-> K, number |-> sent + 1]
  <2>1. K \in SUBSET Key
    BY <1>0, <1>9 DEF MqttResponse, SetType
  <2>2. e \in Event
    BY <1>0, <2>1 DEF Event, HistoryType
  <2>3. Post(e) /\ sent' = sent + 1
        /\ UNCHANGED <<network, alive, lists, stack, fault, session, missed, ignored, intruded>>
    BY <1>9 DEF MqttResponse
  <2> HIDE DEF e
  <2>4. QueueType'
    BY <1>0, <2>2, <2>3, PostIs
  <2>5. NetworkType' /\ ListsType' /\ HistoryType'
    BY <1>0, <2>3 DEF NetworkType, network, ListsType, lists, HistoryType
  <2>6. RunnerType'
    BY <1>0, <2>3, <2>4 DEF RunnerType, QueueType
  <2> QED BY <2>5, <2>6 DEF TypeOK
<1>10. Quiet => TypeOK'
  BY <1>1, QuietIs
<1>11. UNCHANGED allVars => UNCHANGED vars
  BY DEF allVars
<1>12. [NextSet]_allVars =>
         \/ Quiet \/ ConnectionLost \/ SubscriptionsWalk \/ SubscriptionsStep \/ UNCHANGED allVars
         \/ \E k \in Key : tbce_sharedattributes_unregister(k)
         \/ tbce_sharedattributes_subscribe \/ tbce_sharedattributes_unsubscribe
         \/ OnUpdateOfSet \/ OnInitialized \/ WalkSet \/ ReturnFromSet
         \/ \E K : MqttResponse(K)
  BY Zenon DEF NextSet, SetStep, Quiet
<1> QED BY <1>1, <1>2, <1>3, <1>4, <1>5, <1>6, <1>7, <1>8, <1>9, <1>10, <1>11, <1>12, OthersAre

\* The history.
LEMMA ValuesTypeStep == TypeOKSet /\ [NextSet]_allVars => ValuesType'
<1> SUFFICES ASSUME TypeOKSet, [NextSet]_allVars PROVE ValuesType'
  OBVIOUS
<1>0. /\ ValuesType /\ SetType /\ QueueType /\ stack \in Seq(Frame)
  BY TypesAre DEF TypeOK, RunnerType, QueueType
<1> USE DEF ValuesType, values
<1>1. ASSUME NEW K, NEW number \in Nat, Hear(K, number) PROVE heard' \in [Key -> Nat]
  BY <1>0, <1>1 DEF Hear
<1>2. CASE OnInitialized
  <2>1. Receive("RESPONSE")
    BY <1>2 DEF OnInitialized
  <2>2. Head(queue).number \in Nat
    BY <1>0, <2>1, ReceiveIs, ResponseIs
  <2> QED BY <1>0, <1>1, <1>2, <2>2 DEF OnInitialized
<1>3. CASE SubscriptionsWalk
  <2>1. CASE OnUpdate /\ Hear(Head(queue).keys, Head(queue).number) /\ UNCHANGED <<cut, device>>
    <3>1. Head(queue).number \in Nat
      BY <1>0, <2>1, ReceiveIs, EventsAre DEF OnUpdate
    <3> QED BY <1>0, <1>1, <2>1, <3>1
  <2>2. CASE cut' = (cut \/ EndsWalk(Top.id, Top.result)) /\ UNCHANGED <<heard, device>>
    <3>1. cut' \in BOOLEAN
      BY <1>0, <2>2, Zenon
    <3> QED BY <1>0, <2>2, <3>1
  <2> QED BY <1>3, <2>1, <2>2 DEF SubscriptionsWalk
<1>4. CASE WalkSet
  <2>1. CASE UNCHANGED device
    BY <1>0, <1>4, <2>1 DEF WalkSet
  <2>2. CASE /\ Top.next # End
             /\ device' = IF IsSet(Top.next) THEN [device EXCEPT ![key[Top.next]] = Top.number]
                          ELSE device
    <3>1. Top \in Frame
      BY <1>0, <1>4, TopIs DEF WalkSet, IsTop
    <3>2. Top.next \in Entry /\ Top.number \in Nat
      BY <2>2, <3>1 DEF Frame
    <3> QED BY <1>0, <1>4, <2>2, <3>2 DEF WalkSet, SetType
  <2> QED BY <1>4, <2>1, <2>2 DEF WalkSet
<1>5. CASE ReturnFromSet
  BY <1>0, <1>5 DEF ReturnFromSet
<1>6. CASE UNCHANGED values
  BY <1>0, <1>6
<1>7. CASE ConnectionLost \/ SubscriptionsStep
  BY <1>6, <1>7, Zenon DEF ConnectionLost, SubscriptionsStep
<1>8. ASSUME NEW k, \/ tbce_sharedattributes_register(k) \/ tbce_sharedattributes_unregister(k)
                    \/ MqttResponse(k)
      PROVE ValuesType'
  BY <1>6, <1>8 DEF tbce_sharedattributes_register, tbce_sharedattributes_unregister, MqttResponse
<1>9. CASE \/ tbce_sharedattributes_subscribe \/ tbce_sharedattributes_unsubscribe
           \/ tbce_sharedattributes_initialized \/ tbce_sharedattributes_destroy
           \/ OnUpdateOfSet
  <2>1. tbce_sharedattributes_subscribe => UNCHANGED values
    BY SubscribeIs
  <2> QED BY <1>6, <1>9, <2>1 DEF tbce_sharedattributes_unsubscribe,
                  tbce_sharedattributes_initialized, tbce_sharedattributes_destroy, OnUpdateOfSet
<1>10. CASE UNCHANGED allVars
  BY <1>6, <1>10 DEF allVars
<1> QED BY <1>2, <1>3, <1>4, <1>5, <1>7, <1>8, <1>9, <1>10 DEF NextSet, SetStep

LEMMA SetTypes == TypeOKSet /\ [NextSet]_allVars => TypeOKSet'
<1>1. TypeOK' /\ SetType' /\ ValuesType' => TypeOKSet'
  BY DEF TypeOKSet, SetType, ValuesType
<1> QED BY <1>1, SetTypeStep, TypeOKStep, ValuesTypeStep

LEMMA InitSetType == InitSet => TypeOKSet
<1> SUFFICES ASSUME InitSet PROVE TypeOKSet
  OBVIOUS
<1>1. TypeOK
  BY InitType DEF InitSet
<1>2. (CHOOSE k \in Key : TRUE) \in Key
  BY SharedAttributesAssumption
<1>3. SetType
  <2>1. 0 \in 0..MaxEntries
    BY SubscriptionsAssumption
  <2> QED BY <1>2, <2>1 DEF InitSet, SetType, NotSubscribed
<1>4. ValuesType
  BY DEF InitSet, ValuesType
<1> QED BY <1>1, <1>3, <1>4, TypesAre

\* Types of the set on top of the subscriptions: batches, walks that return
\* into walks, and responses included.
THEOREM SetTypeCorrect == SpecSet => []TypeOKSet
<1> QED BY InitSetType, SetTypes, PTL DEF SpecSet
-----------------------------------------------------------------------------
(* AttributesAreListed.                                                    *)

\* The entry of n is one of the set's, has its key, and is listed while the
\* client lives.
Fits(n) ==
  /\ subscribe_id[n] \in ours
  /\ alive => subscribe_id[n] \in attributessubscribe_list
  /\ key[n] \in keys[subscribe_id[n]]

\* Attributes and entries are numbered on: what is made next has no trace yet.
Made ==
  /\ sharedattribute_list \subseteq 1..registered
  /\ \A n \in Entry : n > registered => subscribe_id[n] = NotSubscribed
  /\ ours \subseteq 1..made.attributes

ListedInv ==
  /\ Made
  /\ client = "NULL" => Subscribed = {}
  /\ client = "client" => \A n \in Subscribed : Fits(n)

\* The steps that leave the set alone keep its entries listed.
KeepsEntries ==
  /\ UNCHANGED set
  /\ made'.attributes \in Nat /\ made.attributes <= made'.attributes
  /\ \A e \in ours : /\ alive' => alive
                     /\ alive' /\ e \in attributessubscribe_list => e \in attributessubscribe_list'
                     /\ keys'[e] = keys[e]

LEMMA KeptListed == TypeOKSet /\ ListedInv /\ KeepsEntries => ListedInv'
<1> SUFFICES ASSUME TypeOKSet, ListedInv, KeepsEntries PROVE ListedInv'
  OBVIOUS
<1>1. UNCHANGED <<sharedattribute_list, key, subscribe_id, client, registered, ours>>
      /\ UNCHANGED Subscribed
  BY DEF KeepsEntries, set, Subscribed
<1>2. Made'
  <2>1. made.attributes \in Nat
    BY SubscriptionsAssumption DEF TypeOKSet, TypeOK, ListsType
  <2>2. 1..made.attributes \subseteq 1..made'.attributes
    BY <2>1 DEF KeepsEntries
  <2> QED BY <1>1, <2>2 DEF Made, ListedInv
<1>3. \A n : Fits(n) => Fits(n)'
  BY <1>1 DEF Fits, KeepsEntries
<1> QED BY <1>1, <1>2, <1>3 DEF ListedInv

\* A step of Subscriptions that leaves the entries alone.
LEMMA StillListed ==
  TypeOKSet /\ UNCHANGED set /\ UNCHANGED <<lists, alive>> => KeepsEntries
<1> SUFFICES ASSUME TypeOKSet, UNCHANGED set, UNCHANGED <<lists, alive>> PROVE KeepsEntries
  OBVIOUS
<1>1. made.attributes \in Nat
  BY SubscriptionsAssumption DEF TypeOKSet, TypeOK, ListsType
<1> QED BY <1>1 DEF KeepsEntries, lists

LEMMA ListedStep == TypeOKSet /\ ListedInv /\ [NextSet]_allVars => ListedInv'
<1> SUFFICES ASSUME TypeOKSet, ListedInv, [NextSet]_allVars PROVE ListedInv'
  OBVIOUS
<1>0. /\ SetType /\ ListsType /\ made.attributes \in Nat /\ MaxEntries \in Nat /\ registered \in Nat
      /\ Made
  <2>1. SetType /\ ListsType
    BY TypesAre DEF TypeOK
  <2>2. MaxEntries \in Nat
    BY SubscriptionsAssumption
  <2> QED BY <2>1, <2>2 DEF SetType, ListsType, ListedInv
<1>1. ASSUME NEW k \in Key, tbce_sharedattributes_register(k) PROVE ListedInv'
  <2> DEFINE n == registered + 1
  <2>1. /\ n \in Entry /\ registered' = n /\ key' = [key EXCEPT ![n] = k]
        /\ sharedattribute_list' = sharedattribute_list \cup {n}
        /\ UNCHANGED <<vars, subscribe_id, client, ours>>
    BY <1>1 DEF tbce_sharedattributes_register
  <2>2. n > registered /\ 1..n = 1..registered \cup {n} /\ \A m \in Entry : m > n => m > registered
    BY <1>0 DEF Entry
  <2>3. subscribe_id[n] = NotSubscribed
    BY <1>0, <2>1, <2>2 DEF Made
  <2> HIDE DEF n
  <2>4. Made'
    BY <1>0, <2>1, <2>2 DEF Made, vars, lists
  <2>5. Subscribed' = Subscribed
    BY <2>1, <2>3 DEF Subscribed
  <2>6. \A m \in Subscribed : m # n
    BY <2>3 DEF Subscribed
  <2>7. ASSUME NEW m \in Subscribed PROVE Fits(m) => Fits(m)'
    <3>1. key'[m] = key[m]
      BY <1>0, <2>1, <2>6, <2>7 DEF SetType, Subscribed
    <3> QED BY <2>1, <3>1 DEF Fits, vars, lists
  <2> QED BY <2>1, <2>4, <2>5, <2>7 DEF ListedInv
\* Attributes go.
<1>2. ASSUME UNCHANGED <<lists, alive, key, subscribe_id, registered, ours>>,
             sharedattribute_list' \subseteq sharedattribute_list, client' \in {client, "gone"}
      PROVE ListedInv'
  <2>1. Subscribed' \subseteq Subscribed
    BY <1>2 DEF Subscribed
  <2>2. Made'
    BY <1>0, <1>2 DEF Made, lists
  <2>3. \A n : Fits(n) => Fits(n)'
    BY <1>2 DEF Fits, lists
  <2> QED BY <1>2, <2>1, <2>2, <2>3 DEF ListedInv
<1>3. CASE tbce_sharedattributes_subscribe
  <2>1. /\ NewEntries \subseteq Entry /\ Cardinality(NewEntries) \in Nat
        /\ \A e \in NewEntries :
             e \in (made.attributes + 1)..(made.attributes + Cardinality(NewEntries))
        /\ made' = [made EXCEPT !.attributes = made.attributes + Cardinality(NewEntries)]
        /\ \A n \in New : EntryOf(n) \in NewEntries /\ key[n] \in keys'[EntryOf(n)]
        /\ \A e \in Entry \ NewEntries : keys'[e] = keys[e]
        /\ attributessubscribe_list' = attributessubscribe_list \cup NewEntries
        /\ subscribe_id' = [n \in Entry |-> IF n \in New THEN EntryOf(n) ELSE subscribe_id[n]]
        /\ ours' = ours \cup NewEntries
        /\ client # "gone" /\ client' = "client"
        /\ UNCHANGED <<alive, sharedattribute_list, key, registered>>
    BY <1>3, SubscribeIs
  <2>2. made'.attributes = made.attributes + Cardinality(NewEntries)
    BY <1>0, <2>1 DEF ListsType
  <2>3. Made'
    <3>1. ours' \subseteq 1..made'.attributes
      <4>1. \A e \in ours : e \in 1..made'.attributes
        BY <1>0, <2>1, <2>2 DEF Made
      <4>2. \A e \in NewEntries : e \in 1..made'.attributes
        BY <1>0, <2>1, <2>2
      <4> QED BY <2>1, <4>1, <4>2
    <3>2. ASSUME NEW n \in Entry, n > registered
          PROVE  subscribe_id'[n] = NotSubscribed
      <4>1. n \notin sharedattribute_list
        <5>1. n \notin 1..registered
          BY <1>0, <3>2
        <5> QED BY <1>0, <5>1 DEF Made
      <4>2. subscribe_id'[n] = subscribe_id[n]
        BY <2>1, <4>1 DEF New
      <4> QED BY <1>0, <3>2, <4>2 DEF Made
    <3> QED BY <1>0, <2>1, <3>1, <3>2 DEF Made
  <2>4. ASSUME NEW n \in Subscribed' PROVE Fits(n)'
    <3>1. n \in sharedattribute_list /\ n \in Entry
      BY <1>0, <2>1, <2>4 DEF Subscribed, SetType
    <3>2. CASE n \in New
      BY <2>1, <3>1, <3>2 DEF Fits
    <3>3. CASE n \notin New
      <4>1. n \in Subscribed /\ subscribe_id'[n] = subscribe_id[n]
        BY <2>1, <3>1, <3>3 DEF New
      <4>2. client = "client"
        BY <1>0, <2>1, <4>1 DEF ListedInv, SetType
      <4>3. Fits(n)
        BY <4>1, <4>2 DEF ListedInv
      <4>4. subscribe_id[n] \in Entry \ NewEntries
        <5>1. subscribe_id[n] \in 1..made.attributes /\ subscribe_id[n] \in Entry
          BY <1>0, <4>3 DEF Made, Fits, SetType
        <5> QED BY <1>0, <2>1, <5>1
      <4> QED BY <2>1, <4>1, <4>3, <4>4 DEF Fits
    <3> QED BY <3>2, <3>3
  <2> QED BY <2>1, <2>3, <2>4 DEF ListedInv
<1>4. CASE tbce_sharedattributes_unsubscribe
  <2>1. subscribe_id' = IdsReset /\ client' = "NULL"
        /\ UNCHANGED <<sharedattribute_list, registered, ours, made>>
    BY <1>4 DEF tbce_sharedattributes_unsubscribe
  <2>2. Subscribed' = {}
    BY <1>0, <2>1 DEF Subscribed, IdsReset, SetType
  <2>3. Made'
    BY <1>0, <2>1 DEF Made, IdsReset
  <2> QED BY <2>1, <2>2, <2>3 DEF ListedInv
<1>5. ASSUME UNCHANGED set, UNCHANGED <<lists, alive>> PROVE ListedInv'
  BY <1>5, StillListed, KeptListed
<1>6. CASE \/ tbce_sharedattributes_initialized \/ OnUpdateOfSet \/ OnInitialized \/ WalkSet
           \/ ReturnFromSet \/ (\E K : MqttResponse(K)) \/ ConnectionLost \/ SubscriptionsWalk
  BY <1>5, <1>6 DEF tbce_sharedattributes_initialized, OnUpdateOfSet, OnInitialized, WalkSet,
       ReturnFromSet, MqttResponse, ConnectionLost, MqttDisconnected, tbcm_disconnect,
       SubscriptionsWalk, OnUpdate, ReturnFromUpdate, vars
<1>7. CASE SubscriptionsStep
  <2>0. UNCHANGED set
    BY <1>7 DEF SubscriptionsStep
  <2>1. ASSUME NEW t, NEW K \in Interests, tbcmh_attributes_subscribe(t, K) PROVE KeepsEntries
    <3> DEFINE id == made.attributes + 1
    <3>1. /\ made' = [made EXCEPT !.attributes = id] /\ keys' = [keys EXCEPT ![id] = K]
          /\ attributessubscribe_list' = attributessubscribe_list \cup {id} /\ UNCHANGED alive
      BY <2>1 DEF tbcmh_attributes_subscribe
    <3>2. id \in Nat /\ made.attributes <= id /\ made'.attributes = id
      BY <1>0, <3>1 DEF ListsType
    <3>3. \A e \in ours : e # id /\ e \in Entry
      BY <1>0 DEF Made, SetType
    <3> HIDE DEF id
    <3>4. \A e \in ours : keys'[e] = keys[e]
      BY <1>0, <3>1, <3>3 DEF ListsType
    <3> QED BY <2>0, <3>1, <3>2, <3>4 DEF KeepsEntries
  <2>2. ASSUME NEW t, NEW id \in Entry \ ours, tbcmh_attributes_unsubscribe(t, id)
        PROVE KeepsEntries
    BY <1>0, <2>0, <2>2 DEF KeepsEntries, tbcmh_attributes_unsubscribe
  <2>3. ASSUME FinishDestroy PROVE KeepsEntries
    <3>1. ~alive' /\ UNCHANGED <<keys, made>>
      BY <2>3 DEF FinishDestroy
    <3> QED BY <1>0, <2>0, <3>1 DEF KeepsEntries
  <2>4. ASSUME UNCHANGED <<lists, alive>> PROVE KeepsEntries
    BY <2>0, <2>4, StillListed
  <2>5. ASSUME \/ MqttConnected \/ (\E K : MqttUpdate(K)) \/ tbcmh_connect \/ tbcmh_disconnect
               \/ tbcmh_destroy \/ FinishDisconnect \/ OnConnected \/ OnDisconnected
               \/ ReturnFromEvent \/ WalkOn
        PROVE  KeepsEntries
    BY <2>4, <2>5 DEF MqttConnected, MqttUpdate, MqttData, tbcmh_connect, tbcmh_disconnect,
         tbcmh_destroy, FinishDisconnect, OnConnected, OnDisconnected, ReturnFromEvent, WalkOn
  <2>6. KeepsEntries
    BY <1>7, <2>1, <2>2, <2>3, <2>5, Zenon DEF SubscriptionsStep, Application
  <2> QED BY <2>6, KeptListed
<1>8. CASE UNCHANGED allVars
  BY <1>5, <1>8 DEF allVars, vars
<1>9. ASSUME NEW k \in Key, tbce_sharedattributes_unregister(k) PROVE ListedInv'
  BY <1>2, <1>9 DEF tbce_sharedattributes_unregister
<1>10. CASE tbce_sharedattributes_destroy
  BY <1>2, <1>10 DEF tbce_sharedattributes_destroy, vars
<1> QED BY <1>1, <1>3, <1>4, <1>6, <1>7, <1>8, <1>9, <1>10, Zenon DEF NextSet, SetStep

\* No attribute of the set has a stale subscribe_id, whatever the number of
\* batches, and however registering, subscribing and their opposites alternate.
THEOREM AttributesStayListed == SpecSet => []AttributesAreListed
<1>1. InitSet => ListedInv
  <2> SUFFICES ASSUME InitSet PROVE ListedInv
    OBVIOUS
  <2>1. /\ sharedattribute_list = {} /\ ours = {} /\ client = "NULL"
        /\ \A n \in Entry : subscribe_id[n] = NotSubscribed
    BY DEF InitSet
  <2> QED BY <2>1 DEF ListedInv, Made, Subscribed
<1>2. ListedInv => AttributesAreListed
  BY DEF ListedInv, AttributesAreListed, Fits
<1> QED BY <1>1, <1>2, ListedStep, SetTypeCorrect, PTL DEF SpecSet
-----------------------------------------------------------------------------
(* DeviceIsUpToDate: entries, messages and calls.                          *)

\* Entries are numbered on, and what ended a walk early is not forgotten.
Onward ==
  /\ made.attributes \in Nat /\ made'.attributes \in Nat
  /\ made.attributes <= made'.attributes
  /\ \A e \in ours' : e \in ours \/ e > made.attributes
  /\ cut => cut'
  /\ ignored => ignored'

LEMMA OnwardStep == TypeOKSet /\ [NextSet]_allVars => Onward
<1> SUFFICES ASSUME TypeOKSet, [NextSet]_allVars PROVE Onward
  OBVIOUS
<1>0. ListsType /\ SetType /\ made.attributes \in Nat /\ cut \in BOOLEAN /\ ignored \in BOOLEAN
  <2>1. ListsType /\ SetType
    BY TypesAre DEF TypeOK
  <2> QED BY <2>1, SubscriptionsAssumption DEF ListsType, TypeOKSet, TypeOK, HistoryType
<1>1. ASSUME UNCHANGED <<made, ours>>, cut => cut', ignored => ignored' PROVE Onward
  BY <1>0, <1>1 DEF Onward
<1>2. CASE tbce_sharedattributes_subscribe
  <2>1. /\ made' = [made EXCEPT !.attributes = made.attributes + Cardinality(NewEntries)]
        /\ Cardinality(NewEntries) \in Nat
        /\ \A e \in NewEntries :
             e \in (made.attributes + 1)..(made.attributes + Cardinality(NewEntries))
        /\ ours' = ours \cup NewEntries
        /\ UNCHANGED <<cut, ignored>>
    BY <1>2, SubscribeIs DEF values, history
  <2>2. made'.attributes = made.attributes + Cardinality(NewEntries)
    BY <1>0, <2>1 DEF ListsType
  <2>3. \A e \in NewEntries : e > made.attributes
    BY <1>0, <2>1
  <2> QED BY <1>0, <2>1, <2>2, <2>3 DEF Onward
<1>3. CASE ReturnFromSet
  <2>1. UNCHANGED <<made, ours, ignored>> /\ (cut' = TRUE \/ cut' = cut)
    BY <1>3 DEF ReturnFromSet, lists, history, set
  <2> QED BY <1>1, <2>1
<1>4. CASE SubscriptionsWalk
  <2>1. UNCHANGED <<made, ours>>
    BY <1>4 DEF SubscriptionsWalk, OnUpdate, ReturnFromUpdate, lists, set
  <2>2. cut => cut'
    BY <1>0, <1>4, Zenon DEF SubscriptionsWalk
  <2>3. ignored => ignored'
    <3>1. CASE OnUpdate
      BY <3>1 DEF OnUpdate, history
    <3>2. CASE ReturnFromUpdate
      BY <1>0, <3>2, Zenon DEF ReturnFromUpdate
    <3> QED BY <1>4, <3>1, <3>2 DEF SubscriptionsWalk
  <2> QED BY <1>1, <2>1, <2>2, <2>3
<1>5. CASE SubscriptionsStep
  <2>0. UNCHANGED <<ours, cut>>
    BY <1>5 DEF SubscriptionsStep, set, values
  <2>1. ASSUME NEW t, NEW K \in Interests, tbcmh_attributes_subscribe(t, K) PROVE Onward
    <3>1. made' = [made EXCEPT !.attributes = made.attributes + 1] /\ UNCHANGED ignored
      BY <2>1 DEF tbcmh_attributes_subscribe, history
    <3>2. made'.attributes = made.attributes + 1
      BY <1>0, <3>1 DEF ListsType
    <3> QED BY <1>0, <2>0, <3>1, <3>2 DEF Onward
  <2>2. ASSUME \/ MqttConnected \/ (\E K : MqttUpdate(K)) \/ tbcmh_connect \/ tbcmh_disconnect
               \/ tbcmh_destroy \/ FinishDisconnect \/ OnConnected \/ OnDisconnected
               \/ ReturnFromEvent \/ WalkOn \/ FinishDestroy
               \/ (\E t, id : tbcmh_attributes_unsubscribe(t, id))
        PROVE  Onward
    <3>1. UNCHANGED <<made, ignored>>
      BY <2>2 DEF MqttConnected, MqttUpdate, MqttData, tbcmh_connect, tbcmh_disconnect,
           tbcmh_destroy, FinishDisconnect, OnConnected, OnDisconnected, ReturnFromEvent, WalkOn,
           FinishDestroy, tbcmh_attributes_unsubscribe, lists, history
    <3> QED BY <1>1, <2>0, <3>1
  <2> QED BY <1>5, <2>1, <2>2, Zenon DEF SubscriptionsStep, Application
<1>6. ASSUME \/ tbce_sharedattributes_unsubscribe \/ Quiet
             \/ OnUpdateOfSet \/ OnInitialized \/ WalkSet \/ ConnectionLost
             \/ (\E K : MqttResponse(K)) \/ (\E k : tbce_sharedattributes_unregister(k))
      PROVE  Onward
  <2>1. UNCHANGED <<made, ours, cut, ignored>>
    BY <1>6 DEF Quiet, tbce_sharedattributes_register, tbce_sharedattributes_initialized,
         tbce_sharedattributes_destroy, tbce_sharedattributes_unsubscribe, OnUpdateOfSet,
         OnInitialized, WalkSet, ConnectionLost, MqttDisconnected, tbcm_disconnect,
         MqttResponse, tbce_sharedattributes_unregister, lists, history, set, values, vars
  <2> QED BY <1>1, <2>1
<1>7. CASE UNCHANGED allVars
  BY <1>1, <1>7 DEF allVars, vars, lists, history, set, values
<1> QED BY <1>2, <1>3, <1>4, <1>5, <1>6, <1>7, Zenon DEF NextSet, SetStep, Quiet

\* No entry is listed that was not made, and a set that is gone has no attributes.
Bounds ==
  /\ attributessubscribe_list \subseteq 1..made.attributes
  /\ client = "gone" => sharedattribute_list = {}

LEMMA BoundsStep == TypeOKSet /\ Bounds /\ [NextSet]_allVars => Bounds'
<1> SUFFICES ASSUME TypeOKSet, Bounds, [NextSet]_allVars PROVE Bounds'
  OBVIOUS
<1>0. ListsType /\ SetType /\ Onward
  BY TypesAre, OnwardStep DEF TypeOK
<1>1. 1..made.attributes \subseteq 1..made'.attributes
  BY <1>0 DEF Onward
<1>2. ASSUME attributessubscribe_list' \subseteq attributessubscribe_list,
             client' = "gone" => client = "gone" /\ sharedattribute_list' = sharedattribute_list
      PROVE  Bounds'
  BY <1>1, <1>2 DEF Bounds
<1>3. CASE tbce_sharedattributes_subscribe
  <2>1. /\ made' = [made EXCEPT !.attributes = made.attributes + Cardinality(NewEntries)]
        /\ Cardinality(NewEntries) \in Nat
        /\ \A e \in NewEntries :
             e \in (made.attributes + 1)..(made.attributes + Cardinality(NewEntries))
        /\ attributessubscribe_list' = attributessubscribe_list \cup NewEntries
        /\ client' = "client"
    BY <1>3, SubscribeIs
  <2>2. made'.attributes = made.attributes + Cardinality(NewEntries)
    BY <1>0, <2>1 DEF ListsType
  <2>3. \A e \in NewEntries : e \in 1..made'.attributes
    BY <1>0, <2>1, <2>2 DEF Onward
  <2> QED BY <1>1, <2>1, <2>3 DEF Bounds
<1>4. CASE tbce_sharedattributes_destroy
  BY <1>4 DEF tbce_sharedattributes_destroy, Bounds, vars, lists
<1>5. ASSUME NEW k, tbce_sharedattributes_register(k) PROVE Bounds'
  BY <1>2, <1>5 DEF tbce_sharedattributes_register, vars, lists
<1>6. ASSUME NEW k, tbce_sharedattributes_unregister(k) PROVE Bounds'
  BY <1>6 DEF tbce_sharedattributes_unregister, Bounds, lists
<1>7. CASE tbce_sharedattributes_unsubscribe
  BY <1>2, <1>7 DEF tbce_sharedattributes_unsubscribe
<1>8. CASE SubscriptionsStep
  <2>0. UNCHANGED <<client, sharedattribute_list>>
    BY <1>8 DEF SubscriptionsStep, set
  <2>1. ASSUME NEW t, NEW K, tbcmh_attributes_subscribe(t, K) PROVE Bounds'
    <3>1. /\ made' = [made EXCEPT !.attributes = made.attributes + 1]
          /\ attributessubscribe_list' = attributessubscribe_list \cup {made.attributes + 1}
      BY <2>1 DEF tbcmh_attributes_subscribe
    <3>2. made'.attributes = made.attributes + 1
      BY <1>0, <3>1 DEF ListsType
    <3>3. made.attributes + 1 \in 1..made'.attributes
      BY <1>0, <3>2 DEF Onward
    <3> QED BY <1>1, <2>0, <3>1, <3>3 DEF Bounds
  <2>2. ASSUME \/ MqttConnected \/ (\E K : MqttUpdate(K)) \/ tbcmh_connect \/ tbcmh_disconnect
               \/ tbcmh_destroy \/ FinishDisconnect \/ OnConnected \/ OnDisconnected
               \/ ReturnFromEvent \/ WalkOn \/ FinishDestroy
               \/ (\E t, id : tbcmh_attributes_unsubscribe(t, id))
        PROVE  Bounds'
    <3>1. attributessubscribe_list' \subseteq attributessubscribe_list
      BY <2>2 DEF MqttConnected, MqttUpdate, MqttData, tbcmh_connect, tbcmh_disconnect,
           tbcmh_destroy, FinishDisconnect, OnConnected, OnDisconnected, ReturnFromEvent, WalkOn,
           FinishDestroy, tbcmh_attributes_unsubscribe, lists
    <3> QED BY <1>2, <2>0, <3>1
  <2> QED BY <1>8, <2>1, <2>2, Zenon DEF SubscriptionsStep, Application
<1>9. ASSUME \/ tbce_sharedattributes_initialized
             \/ OnUpdateOfSet \/ OnInitialized \/ WalkSet \/ ReturnFromSet \/ ConnectionLost
             \/ (\E K : MqttResponse(K)) \/ SubscriptionsWalk
      PROVE  Bounds'
  <2>1. UNCHANGED <<attributessubscribe_list, client, sharedattribute_list>>
    BY <1>9 DEF tbce_sharedattributes_initialized, OnUpdateOfSet, ReturnFromSet,
         OnInitialized, WalkSet, ConnectionLost, MqttDisconnected, tbcm_disconnect,
         MqttResponse, SubscriptionsWalk, OnUpdate, ReturnFromUpdate, lists, set, vars
  <2> QED BY <1>2, <2>1
<1>10. CASE UNCHANGED allVars
  BY <1>2, <1>10 DEF allVars, vars, lists, set
<1> QED BY <1>3, <1>4, <1>5, <1>6, <1>7, <1>8, <1>9, <1>10, Zenon DEF NextSet, SetStep
\* Messages are handled in the order of their numbers: what was heard of a key is
\* older than all that waits in the queue.
Numbered(e) == e.type \in {"UPDATE", "RESPONSE"}

InOrder ==
  /\ \A k \in Key : heard[k] <= sent
  /\ \A i \in 1..Len(queue) : Numbered(queue[i]) =>
       /\ queue[i].number <= sent
       /\ \A k \in Key : heard[k] <= queue[i].number
       /\ \A j \in 1..i : Numbered(queue[j]) => queue[j].number <= queue[i].number

LEMMA NumbersAre ==
  ASSUME TypeOKSet
  PROVE  /\ queue \in Seq(Event) /\ Len(queue) \in Nat /\ sent \in Nat
         /\ \A k \in Key : heard[k] \in Nat /\ device[k] \in Nat
         /\ \A i \in 1..Len(queue) : Numbered(queue[i]) => queue[i].number \in Nat
<1>1. queue \in Seq(Event) /\ Len(queue) \in Nat /\ sent \in Nat
      /\ heard \in [Key -> Nat] /\ device \in [Key -> Nat]
  BY DEF TypeOKSet, TypeOK, RunnerType, HistoryType
<1>2. ASSUME NEW e \in Event, Numbered(e) PROVE e.number \in Nat
  BY <1>2, EventsAre, ResponseIs DEF Numbered
<1> QED BY <1>1, <1>2

LEMMA PostInOrder ==
  ASSUME TypeOKSet, InOrder, NEW e \in Event, Post(e), UNCHANGED heard,
         \/ sent' = sent /\ ~Numbered(e)
         \/ sent' = sent + 1 /\ e.number = sent + 1
  PROVE  InOrder'
<1>1. /\ queue \in Seq(Event) /\ Len(queue) \in Nat /\ sent \in Nat
      /\ \A k \in Key : heard[k] \in Nat
      /\ \A i \in 1..Len(queue) : Numbered(queue[i]) => queue[i].number \in Nat
  BY NumbersAre
<1>2. sent' \in Nat /\ sent <= sent' /\ (Numbered(e) => e.number = sent + 1 /\ e.number <= sent')
  BY <1>1
<1>3. ASSUME NEW k \in Key PROVE heard'[k] <= sent'
  BY <1>1, <1>2 DEF InOrder
<1>4. CASE queue' = queue
  <2>1. ASSUME NEW i \in 1..Len(queue), Numbered(queue[i]) PROVE queue[i].number <= sent'
    BY <1>1, <1>2, <2>1 DEF InOrder
  <2> QED BY <1>3, <1>4, <2>1 DEF InOrder
<1>5. CASE queue' = Append(queue, e)
  <2>1. /\ Len(queue') = Len(queue) + 1 /\ queue'[Len(queue) + 1] = e
        /\ \A i \in 1..Len(queue) : queue'[i] = queue[i]
    BY <1>1, <1>5, Pushed
  <2>2. ASSUME NEW i \in 1..Len(queue'), Numbered(queue'[i])
        PROVE  /\ queue'[i].number <= sent'
               /\ \A k \in Key : heard'[k] <= queue'[i].number
               /\ \A j \in 1..i : Numbered(queue'[j]) => queue'[j].number <= queue'[i].number
    <3>1. CASE i = Len(queue) + 1
      <4>1. queue'[i] = e /\ e.number = sent + 1 /\ e.number <= sent'
        BY <1>2, <2>1, <2>2, <3>1
      <4>2. \A k \in Key : heard'[k] <= e.number
        BY <1>1, <4>1 DEF InOrder
      <4>3. ASSUME NEW j \in 1..i, Numbered(queue'[j]) PROVE queue'[j].number <= e.number
        <5>1. CASE j = i
          BY <1>1, <4>1, <5>1
        <5>2. CASE j # i
          <6>1. j \in 1..Len(queue)
            BY <1>1, <3>1, <5>2
          <6> QED BY <1>1, <2>1, <4>1, <4>3, <6>1 DEF InOrder
        <5> QED BY <5>1, <5>2
      <4> QED BY <4>1, <4>2, <4>3
    <3>2. CASE i # Len(queue) + 1
      <4>1. i \in 1..Len(queue) /\ \A j \in 1..i : j \in 1..Len(queue)
        BY <1>1, <2>1, <3>2
      <4>2. queue'[i] = queue[i] /\ \A j \in 1..i : queue'[j] = queue[j]
        BY <2>1, <4>1
      <4>3. queue[i].number <= sent'
        BY <1>1, <1>2, <2>2, <4>1, <4>2 DEF InOrder
      <4> QED BY <2>2, <4>1, <4>2, <4>3 DEF InOrder
    <3> QED BY <3>1, <3>2
  <2> QED BY <1>3, <2>2 DEF InOrder
<1> QED BY <1>4, <1>5 DEF Post

\* The message that is heard is the oldest.
LEMMA TakeInOrder ==
  ASSUME TypeOKSet, InOrder, NEW type, Receive(type), UNCHANGED sent,
         \/ UNCHANGED heard
         \/ Numbered(Head(queue)) /\ \E K : Hear(K, Head(queue).number)
  PROVE  InOrder'
<1>1. /\ queue \in Seq(Event) /\ Len(queue) \in Nat /\ sent \in Nat
      /\ \A k \in Key : heard[k] \in Nat
      /\ \A i \in 1..Len(queue) : Numbered(queue[i]) => queue[i].number \in Nat
  BY NumbersAre
<1>2. /\ Head(queue) = queue[1] /\ Len(queue) \in Nat \ {0} /\ Len(queue') = Len(queue) - 1
      /\ \A i \in 1..Len(queue') : queue'[i] = queue[i + 1]
  BY ReceiveIs DEF TypeOKSet, TypeOK, RunnerType, QueueType
<1>3. \A k \in Key : heard'[k] = heard[k]
                     \/ (Numbered(queue[1]) /\ heard'[k] = queue[1].number)
  BY <1>2 DEF Hear
<1>4. 1 \in 1..Len(queue)
  BY <1>2
<1>5. ASSUME NEW k \in Key PROVE heard'[k] <= sent'
  BY <1>3, <1>4 DEF InOrder
<1>6. ASSUME NEW i \in 1..Len(queue'), Numbered(queue'[i])
      PROVE  /\ queue'[i].number <= sent'
             /\ \A k \in Key : heard'[k] <= queue'[i].number
             /\ \A j \in 1..i : Numbered(queue'[j]) => queue'[j].number <= queue'[i].number
  <2>1. i + 1 \in 1..Len(queue) /\ 1 \in 1..(i + 1) /\ queue'[i] = queue[i + 1]
    BY <1>2
  <2>2. \A j \in 1..i : j + 1 \in 1..(i + 1) /\ queue'[j] = queue[j + 1]
    BY <1>2
  <2>3. \A k \in Key : heard'[k] <= queue'[i].number
    BY <1>3, <1>6, <2>1 DEF InOrder
  <2>4. ASSUME NEW j \in 1..i, Numbered(queue'[j]) PROVE queue'[j].number <= queue'[i].number
    <3>1. queue'[j] = queue[j + 1] /\ j + 1 \in 1..(i + 1)
      BY <2>2
    <3> QED BY <1>6, <2>1, <2>4, <3>1 DEF InOrder
  <2>5. queue'[i].number <= sent'
    BY <1>6, <2>1 DEF InOrder
  <2> QED BY <2>3, <2>4, <2>5
<1> QED BY <1>5, <1>6 DEF InOrder

LEMMA OrderStep == TypeOKSet /\ InOrder /\ [NextSet]_allVars => InOrder'
<1> SUFFICES ASSUME TypeOKSet, InOrder, [NextSet]_allVars PROVE InOrder'
  OBVIOUS
<1>0. sent \in Nat /\ SetType
  BY TypesAre DEF TypeOK, HistoryType
<1>1. ASSUME UNCHANGED <<queue, sent, heard>> PROVE InOrder'
  BY <1>1 DEF InOrder
<1>2. ASSUME NEW type, Receive(type), UNCHANGED <<sent, heard>> PROVE InOrder'
  BY <1>2, TakeInOrder
<1>3. CASE OnInitialized
  <2>1. Receive("RESPONSE") /\ UNCHANGED sent /\ Hear(Head(queue).keys, Head(queue).number)
    BY <1>3 DEF OnInitialized, history
  <2>2. Numbered(Head(queue))
    BY <2>1 DEF Receive, Numbered
  <2> QED BY <2>1, <2>2, TakeInOrder
<1>4. CASE SubscriptionsWalk
  <2>1. CASE OnUpdate /\ Hear(Head(queue).keys, Head(queue).number)
    <3>1. Receive("UPDATE") /\ UNCHANGED sent
      BY <2>1 DEF OnUpdate, history
    <3>2. Numbered(Head(queue))
      BY <3>1 DEF Receive, Numbered
    <3> QED BY <2>1, <3>1, <3>2, TakeInOrder
  <2>2. CASE ReturnFromUpdate /\ UNCHANGED heard
    BY <1>1, <2>2 DEF ReturnFromUpdate
  <2> QED BY <1>4, <2>1, <2>2 DEF SubscriptionsWalk
<1>5. ASSUME NEW K \in SUBSET Key, MqttResponse(K) PROVE InOrder'
  <2> DEFINE e == [type |-> "RESPONSE", keys |-> K, number |-> sent + 1]
  <2>1. e \in Event /\ e.number = sent + 1
    BY <1>0 DEF Event
  <2>2. Post(e) /\ sent' = sent + 1 /\ UNCHANGED heard
    BY <1>5 DEF MqttResponse, values
  <2> HIDE DEF e
  <2> QED BY <2>1, <2>2, PostInOrder
<1>6. CASE ConnectionLost
  <2>0. UNCHANGED heard
    BY <1>6 DEF ConnectionLost, values
  <2>1. CASE MqttDisconnected
    <3>1. [type |-> "DISCONNECTED"] \in Event /\ ~Numbered([type |-> "DISCONNECTED"])
      BY DEF Event, Numbered
    <3>2. Post([type |-> "DISCONNECTED"]) /\ sent' = sent
      BY <2>1 DEF MqttDisconnected, history
    <3> QED BY <2>0, <3>1, <3>2, PostInOrder
  <2>2. CASE tbcm_disconnect
    BY <1>1, <2>0, <2>2 DEF tbcm_disconnect, history
  <2> QED BY <1>6, <2>1, <2>2 DEF ConnectionLost
<1>7. CASE SubscriptionsStep
  <2>0. UNCHANGED heard
    BY <1>7 DEF SubscriptionsStep, values
  <2>1. ASSUME MqttConnected PROVE InOrder'
    <3>1. [type |-> "CONNECTED"] \in Event /\ ~Numbered([type |-> "CONNECTED"])
      BY DEF Event, Numbered
    <3>2. Post([type |-> "CONNECTED"]) /\ sent' = sent
      BY <2>1 DEF MqttConnected
    <3> QED BY <2>0, <3>1, <3>2, PostInOrder
  <2>2. ASSUME NEW K \in (SUBSET Key) \ {{}}, MqttUpdate(K) PROVE InOrder'
    <3> DEFINE e == [type |-> "UPDATE", keys |-> K, number |-> sent + 1]
    <3>1. e \in Event /\ e.number = sent + 1
      BY <1>0 DEF Event
    <3>2. Post(e) /\ sent' = sent + 1
      BY <2>2 DEF MqttUpdate, MqttData
    <3> HIDE DEF e
    <3> QED BY <2>0, <3>1, <3>2, PostInOrder
  <2>3. ASSUME OnConnected \/ OnDisconnected PROVE InOrder'
    <3>1. UNCHANGED sent /\ \E type : Receive(type)
      BY <2>3 DEF OnConnected, OnDisconnected, history
    <3> QED BY <1>2, <2>0, <3>1
  <2>4. ASSUME FinishDestroy PROVE InOrder'
    <3>1. queue' = << >> /\ UNCHANGED sent
      BY <2>4 DEF FinishDestroy, history
    <3>2. Len(queue') = 0
      BY <3>1
    <3> QED BY <2>0, <3>1, <3>2 DEF InOrder
  <2>5. ASSUME \/ Application \/ FinishDisconnect \/ ReturnFromEvent \/ WalkOn PROVE InOrder'
    <3>1. UNCHANGED <<queue, sent>>
      BY <2>5 DEF Application, tbcmh_attributes_subscribe, tbcmh_attributes_unsubscribe,
           tbcmh_connect, tbcmh_disconnect, tbcmh_destroy, FinishDisconnect, ReturnFromEvent,
           WalkOn, history
    <3> QED BY <1>1, <2>0, <3>1
  <2> QED BY <1>7, <2>1, <2>2, <2>3, <2>4, <2>5, Zenon DEF SubscriptionsStep
<1>8. ASSUME \/ tbce_sharedattributes_subscribe \/ tbce_sharedattributes_unsubscribe \/ Quiet
             \/ OnUpdateOfSet \/ WalkSet \/ ReturnFromSet
             \/ (\E k : tbce_sharedattributes_unregister(k))
      PROVE  InOrder'
  <2>1. tbce_sharedattributes_subscribe => UNCHANGED <<queue, sent, heard>>
    BY SubscribeIs DEF values, history
  <2>2. UNCHANGED <<queue, sent, heard>>
    BY <1>8, <2>1 DEF Quiet, tbce_sharedattributes_register, tbce_sharedattributes_initialized,
         tbce_sharedattributes_destroy, tbce_sharedattributes_unsubscribe, OnUpdateOfSet,
         WalkSet, ReturnFromSet, tbce_sharedattributes_unregister, history, values, vars
  <2> QED BY <1>1, <2>2
<1>9. CASE UNCHANGED allVars
  BY <1>1, <1>9 DEF allVars, vars, history, values
<1> QED BY <1>3, <1>4, <1>5, <1>6, <1>7, <1>8, <1>9, Zenon DEF NextSet, SetStep, Quiet
-----------------------------------------------------------------------------
(* The frames of the stack.                                                *)

\* A call that has changed in one field.
SameWalk(g, f) ==
  g.kind = f.kind /\ g.id = f.id /\ g.next = f.next /\ g.keys = f.keys /\ g.number = f.number

LEMMA PcChanged ==
  ASSUME NEW f \in Frame, NEW p \in {"call", "step", "return"}
  PROVE  LET g == [f EXCEPT !.pc = p]
         IN g \in Frame /\ g.pc = p /\ g.result = f.result /\ SameWalk(g, f)
BY DEF Frame, SameWalk

LEMMA ResultChanged ==
  ASSUME NEW f \in Frame, NEW r \in 0..2
  PROVE  LET g == [f EXCEPT !.result = r]
         IN g \in Frame /\ g.result = r /\ g.pc = f.pc /\ SameWalk(g, f)
<1>1. [f EXCEPT !.result = r] \in Frame
  BY FrameChanged
<1>2. LET g == [f EXCEPT !.result = r] IN g.result = r /\ g.pc = f.pc /\ SameWalk(g, f)
  BY DEF Frame, SameWalk
<1> QED BY <1>1, <1>2

\* A walk of the subscriptions when it starts.
Started ==
  [Call("update", "step") EXCEPT !.keys = Head(queue).keys, !.number = Head(queue).number,
                                 !.next = After(End, attributessubscribe_list)]

LEMMA StartedIs ==
  ASSUME TypeOKSet, OnUpdate
  PROVE  /\ Started \in Frame
         /\ Started.kind = "update" /\ Started.pc = "step" /\ Started.result = 0
         /\ Started.keys = Head(queue).keys /\ Started.number = Head(queue).number
         /\ Started.id = End
         /\ Started.next = After(End, attributessubscribe_list)
         /\ Started.next \in attributessubscribe_list \cup {End}
         /\ stack' = Append(stack, Started)
<1>1. Receive("UPDATE") /\ stack' = Append(stack, Started)
  BY DEF OnUpdate, Push, Started
<1>2. ListsType /\ Head(queue) \in Event /\ Head(queue).type = "UPDATE"
  BY <1>1, ReceiveIs DEF TypeOKSet, TypeOK, RunnerType, QueueType
<1>3. /\ After(End, attributessubscribe_list) \in attributessubscribe_list \cup {End}
      /\ Started \in Frame
  BY <1>2, UpdateFrame DEF Started
<1>4. /\ Started.kind = "update" /\ Started.pc = "step" /\ Started.result = 0
      /\ Started.keys = Head(queue).keys /\ Started.number = Head(queue).number
      /\ Started.id = End
      /\ Started.next = After(End, attributessubscribe_list)
  BY DEF Started, Call
<1> QED BY <1>1, <1>3, <1>4

\* The next entry of such a walk.
LEMMA WalkedOnIs ==
  ASSUME TypeOKSet, WalkOn, Top.next # End
  PROVE  /\ WalkedOn \in Frame
         /\ WalkedOn.kind = "update" /\ WalkedOn.result = 0
         /\ WalkedOn.id = Top.next
         /\ WalkedOn.next = After(Top.next, attributessubscribe_list)
         /\ WalkedOn.next \in attributessubscribe_list \cup {End}
         /\ WalkedOn.keys = Top.keys /\ WalkedOn.number = Top.number
         /\ WalkedOn.pc = (IF keys[Top.next] = {} \/ keys[Top.next] \cap Top.keys # {}
                           THEN "call" ELSE "step")
         /\ stack' = [stack EXCEPT ![Len(stack)] = WalkedOn]
<1>1. ListsType /\ StackType /\ stack # << >> /\ Top.kind = "update"
      /\ stack' = [stack EXCEPT ![Len(stack)] = WalkedOn]
  BY DEF TypeOKSet, TypeOK, RunnerType, StackType, WalkOn, IsTop, WalkedOn, Top
<1>2. WalkedOn \in Frame /\ WalkedOn.next \in attributessubscribe_list \cup {End}
      /\ WalkedOn.kind = Top.kind
  BY <1>1, WalkFrame
<1>3. Top \in Frame
  BY <1>1, TopIs DEF StackType
<1>4. Top.next \in Entry \cup {End}
  BY <1>3 DEF Frame
<1> DEFINE g == [Top EXCEPT !.id = Top.next]
           h == [g EXCEPT !.next = After(Top.next, attributessubscribe_list)]
           k == [h EXCEPT !.pc = IF keys[Top.next] = {} \/ keys[Top.next] \cap Top.keys # {}
                                 THEN "call" ELSE "step"]
<1>5. WalkedOn = [k EXCEPT !.result = 0]
  BY DEF WalkedOn
<1>6. g \in Frame /\ g.id = Top.next /\ g.keys = Top.keys /\ g.number = Top.number
  <2>1. g \in Frame
    BY <1>3, <1>4, FrameChanged
  <2>2. g.id = Top.next /\ g.keys = Top.keys /\ g.number = Top.number
    BY <1>3 DEF Frame
  <2> QED BY <2>1, <2>2
<1>7. After(Top.next, attributessubscribe_list) \in Entry \cup {End}
  <2>1. Top.next \in Nat /\ attributessubscribe_list \in SUBSET Nat
    BY <1>1, <1>4, SubscriptionsAssumption DEF ListsType, Entry, End
  <2>2. After(Top.next, attributessubscribe_list) \in attributessubscribe_list \cup {End}
    BY <2>1, AfterIsListed
  <2> QED BY <1>1, <2>2 DEF ListsType
<1> HIDE DEF g
<1>8. h \in Frame
  BY <1>6, <1>7, FrameChanged
<1>9. h.id = Top.next /\ h.keys = Top.keys /\ h.number = Top.number
      /\ h.next = After(Top.next, attributessubscribe_list)
  BY <1>6 DEF Frame
<1> HIDE DEF h
<1>10. k \in Frame /\ k.id = Top.next /\ k.keys = Top.keys /\ k.number = Top.number
       /\ k.next = After(Top.next, attributessubscribe_list)
       /\ k.pc = (IF keys[Top.next] = {} \/ keys[Top.next] \cap Top.keys # {}
                  THEN "call" ELSE "step")
  <2> DEFINE p == IF keys[Top.next] = {} \/ keys[Top.next] \cap Top.keys # {}
                  THEN "call" ELSE "step"
  <2>1. p \in {"call", "step", "return"}
    OBVIOUS
  <2> HIDE DEF p
  <2>2. LET l == [h EXCEPT !.pc = p]
        IN l \in Frame /\ l.pc = p /\ SameWalk(l, h)
    BY <1>8, <2>1, PcChanged
  <2> QED BY <1>9, <2>2 DEF SameWalk, p
<1> HIDE DEF k
<1>11. WalkedOn.result = 0 /\ WalkedOn.pc = k.pc /\ SameWalk(WalkedOn, k)
  <2>1. 0 \in 0..2
    OBVIOUS
  <2>2. LET l == [k EXCEPT !.result = 0]
        IN l \in Frame /\ l.result = 0 /\ l.pc = k.pc /\ SameWalk(l, k)
    BY <1>10, <2>1, ResultChanged
  <2> QED BY <1>5, <2>2
<1> QED BY <1>1, <1>2, <1>10, <1>11 DEF SameWalk

\* What is true of each call of the stack: m entries were made, those of O belong
\* to the set, and ended says that a walk was cut short or a result ignored.  A
\* callback that returns 1 or 2 is one of the application, or a walk has ended.
Sane(f, m, O, ended) ==
  /\ f.pc = "return" => f.kind = "update"
  /\ f.kind = "set" /\ f.pc = "step" => f.result = 0
  /\ f.kind = "update" => f.id <= m /\ f.next <= m
  /\ f.kind = "update" /\ f.result # 0 /\ ~ended => f.pc = "call" /\ f.id \notin O

SaneAll(s, m, O, ended) == \A i \in 1..Len(s) : Sane(s[i], m, O, ended)

Ended  == cut \/ ignored
Frames == SaneAll(stack, made.attributes, ours, Ended)

\* It stays true of a call.
LEMMA SaneOn ==
  ASSUME Onward, NEW f \in Frame, Sane(f, made.attributes, ours, Ended)
  PROVE  Sane(f, made'.attributes, ours', Ended')
<1>1. f.id \in Nat /\ f.next \in Nat
  BY SubscriptionsAssumption DEF Frame, Entry, End
<1>2. f.kind = "update" => f.id <= made'.attributes /\ f.next <= made'.attributes
  BY <1>1 DEF Onward, Sane
<1>3. Ended => Ended'
  BY Zenon DEF Onward, Ended
<1>4. ASSUME f.kind = "update", f.id \notin ours PROVE f.id \notin ours'
  <2>1. f.id <= made.attributes
    BY <1>4 DEF Sane
  <2>2. ~(f.id > made.attributes)
    BY <1>1, <2>1 DEF Onward
  <2> QED BY <1>4, <2>2 DEF Onward
<1> QED BY <1>2, <1>3, <1>4 DEF Sane

\* What a step has to show of the calls that are new or changed.
LEMMA FramesFollow ==
  ASSUME TypeOKSet, Frames, Onward,
         \A i \in 1..Len(stack') : \/ i \in 1..Len(stack) /\ stack'[i] = stack[i]
                                   \/ Sane(stack'[i], made'.attributes, ours', Ended')
  PROVE  Frames'
<1>1. \A i \in 1..Len(stack) : stack[i] \in Frame /\ Sane(stack[i], made.attributes, ours, Ended)
  BY DEF TypeOKSet, TypeOK, RunnerType, Frames, SaneAll
<1>2. \A i \in 1..Len(stack) : Sane(stack[i], made'.attributes, ours', Ended')
  BY <1>1, SaneOn
<1>3. \A i \in 1..Len(stack') : Sane(stack'[i], made'.attributes, ours', Ended')
  BY <1>2
<1> QED BY <1>3 DEF Frames, SaneAll
\* A result that a callback of the application will return.
LEMMA WillReturnSane ==
  ASSUME TypeOKSet, Frames, Onward, NEW t, NEW r \in 1..2,
         t = Runner /\ stack # << >> => Top.pc = "call",
         IsTop("update", "call") => Top.id \notin ours
  PROVE  /\ WillReturn(t, r) \in Seq(Frame) /\ Len(WillReturn(t, r)) = Len(stack)
         /\ \A i \in 1..Len(stack) : \/ WillReturn(t, r)[i] = stack[i]
                                     \/ Sane(WillReturn(t, r)[i], made'.attributes, ours', Ended')
<1> DEFINE w == WillReturn(t, r)
<1>1. /\ stack \in Seq(Frame)
      /\ w \in Seq(Frame) /\ Len(w) = Len(stack)
      /\ \A i \in 1..Len(stack) : w[i] = IF t = Runner /\ i = Len(stack) /\ stack[i].result < r
                                         THEN [stack[i] EXCEPT !.result = r] ELSE stack[i]
  BY WillReturnIs DEF TypeOKSet, TypeOK, RunnerType
<1> HIDE DEF w
<1>2. ASSUME NEW i \in 1..Len(stack), w[i] # stack[i]
      PROVE  Sane(w[i], made'.attributes, ours', Ended')
  <2>1. t = Runner /\ i = Len(stack) /\ w[i] = [stack[i] EXCEPT !.result = r]
    BY <1>1, <1>2
  <2>2. stack # << >> /\ stack[i] = Top /\ Top.pc = "call" /\ Top \in Frame
    BY <1>1, <2>1, TopIs DEF Top
  <2> DEFINE g == [Top EXCEPT !.result = r]
  <2>3. g \in Frame /\ g.pc = "call" /\ SameWalk(g, Top)
    <3>1. r \in 0..2
      OBVIOUS
    <3>2. g \in Frame /\ g.pc = Top.pc /\ SameWalk(g, Top)
      BY <2>2, <3>1, ResultChanged
    <3> QED BY <2>2, <3>2
  <2>4. w[i] = g
    BY <2>1, <2>2
  <2> HIDE DEF g
  <2>5. Sane(Top, made.attributes, ours, Ended)
    BY <2>2 DEF Frames, SaneAll
  <2>6. Sane(g, made.attributes, ours, Ended)
    BY <2>2, <2>3, <2>5 DEF Sane, SameWalk, IsTop
  <2> QED BY <2>3, <2>4, <2>6, SaneOn
<1> QED BY <1>1, <1>2 DEF w

\* A call that is no walk.
LEMMA CallSane ==
  ASSUME NEW kind \in {"flush", "drain", "destroy", "event"}, NEW pc \in {"call", "step"},
         NEW m, NEW O, NEW ended
  PROVE  Sane(Call(kind, pc), m, O, ended)
BY DEF Sane, Call

\* The step leaves the stack, or makes one call return that is no walk, or makes one.
LEMMA FramesPlain ==
  ASSUME TypeOKSet, Frames, Onward,
         \/ UNCHANGED stack
         \/ stack # << >> /\ stack' = Below
         \/ stack' = Append(stack, Call("event", "call"))
  PROVE  Frames'
<1>1. stack \in Seq(Frame)
  BY DEF TypeOKSet, TypeOK, RunnerType
<1>2. CASE UNCHANGED stack
  BY <1>2, FramesFollow
<1>3. CASE stack # << >> /\ stack' = Below
  <2>1. Len(stack) \in Nat /\ Len(stack') = Len(stack) - 1
        /\ \A i \in 1..Len(stack) - 1 : stack'[i] = stack[i]
    BY <1>1, <1>3, Popped DEF Below
  <2>2. \A i \in 1..Len(stack') : i \in 1..Len(stack) /\ stack'[i] = stack[i]
    BY <2>1
  <2> QED BY <2>2, FramesFollow
<1>4. CASE stack' = Append(stack, Call("event", "call"))
  <2> DEFINE f == Call("event", "call")
  <2>1. f \in Frame /\ \A m, O, e : Sane(f, m, O, e)
    BY CallIsFrame, CallSane
  <2> HIDE DEF f
  <2>2. Len(stack) \in Nat /\ Len(stack') = Len(stack) + 1 /\ stack'[Len(stack) + 1] = f
        /\ \A i \in 1..Len(stack) : stack'[i] = stack[i]
    BY <1>1, <1>4, <2>1, Pushed DEF f
  <2>3. ASSUME NEW i \in 1..Len(stack')
        PROVE  \/ i \in 1..Len(stack) /\ stack'[i] = stack[i]
               \/ Sane(stack'[i], made'.attributes, ours', Ended')
    <3>1. i = Len(stack) + 1 \/ i \in 1..Len(stack)
      BY <2>2
    <3> QED BY <2>1, <2>2, <3>1
  <2> QED BY <2>3, FramesFollow
<1> QED BY <1>2, <1>3, <1>4

\* One call is pushed, or the top is changed.
LEMMA FramesPushed ==
  ASSUME TypeOKSet, Frames, Onward, NEW f \in Frame,
         Sane(f, made'.attributes, ours', Ended'),
         \/ stack' = Append(stack, f)
         \/ stack # << >> /\ stack' = [stack EXCEPT ![Len(stack)] = f]
  PROVE  Frames'
<1>1. stack \in Seq(Frame) /\ Len(stack) \in Nat
  BY DEF TypeOKSet, TypeOK, RunnerType
<1>2. ASSUME NEW i \in 1..Len(stack')
      PROVE  \/ i \in 1..Len(stack) /\ stack'[i] = stack[i]
             \/ stack'[i] = f
  <2>1. CASE stack' = Append(stack, f)
    <3>1. Len(stack') = Len(stack) + 1 /\ stack'[Len(stack) + 1] = f
          /\ \A j \in 1..Len(stack) : stack'[j] = stack[j]
      BY <1>1, <2>1, Pushed
    <3>2. i = Len(stack) + 1 \/ i \in 1..Len(stack)
      BY <1>1, <3>1
    <3> QED BY <3>1, <3>2
  <2>2. CASE stack # << >> /\ stack' = [stack EXCEPT ![Len(stack)] = f]
    <3>1. Len(stack') = Len(stack) /\ stack'[Len(stack)] = f
          /\ \A j \in 1..Len(stack) : j # Len(stack) => stack'[j] = stack[j]
      BY <1>1, <2>2, TopChanged
    <3> QED BY <3>1
  <2> QED BY <2>1, <2>2
<1>3. \A i \in 1..Len(stack') : \/ i \in 1..Len(stack) /\ stack'[i] = stack[i]
                                \/ Sane(stack'[i], made'.attributes, ours', Ended')
  <2> SUFFICES ASSUME NEW i \in 1..Len(stack')
               PROVE  \/ i \in 1..Len(stack) /\ stack'[i] = stack[i]
                      \/ Sane(stack'[i], made'.attributes, ours', Ended')
    OBVIOUS
  <2>1. CASE i \in 1..Len(stack) /\ stack'[i] = stack[i]
    BY <2>1
  <2>2. CASE stack'[i] = f
    BY <2>2
  <2> QED BY <1>2, <2>1, <2>2
<1> QED BY <1>3, FramesFollow
\* The steps of the subscriptions in which no walk goes on and no callback says
\* what it will return: those that leave the stack, and those that do not.
PlainBelow ==
  \/ MqttConnected
  \/ MqttDisconnected
  \/ \E K : MqttUpdate(K)
  \/ \E t, K : tbcmh_attributes_subscribe(t, K)
  \/ tbcmh_connect

PlainCall ==
  \/ FinishDisconnect
  \/ FinishDestroy
  \/ ReturnFromEvent
  \/ OnConnected
  \/ OnDisconnected

\* All such steps.
Plain ==
  \/ Quiet
  \/ tbce_sharedattributes_subscribe
  \/ tbce_sharedattributes_unsubscribe
  \/ \E K : MqttResponse(K)
  \/ UNCHANGED <<set, values>> /\ (PlainBelow \/ PlainCall)
  \/ UNCHANGED allVars

LEMMA PlainIs ==
  ASSUME TypeOKSet, Plain
  PROVE  \/ UNCHANGED stack
         \/ stack # << >> /\ stack' = Below /\ Top.kind \in {"drain", "destroy", "event"}
         \/ stack' = Append(stack, Call("event", "call"))
              /\ (stack # << >> => Top.kind \in {"flush", "drain"})
<1>1. CASE \/ Quiet \/ tbce_sharedattributes_subscribe \/ tbce_sharedattributes_unsubscribe
           \/ (\E K : MqttResponse(K)) \/ PlainBelow \/ UNCHANGED allVars
  <2>1. Quiet \/ UNCHANGED allVars => UNCHANGED stack
    BY QuietIs DEF vars, allVars
  <2>2. tbce_sharedattributes_subscribe => UNCHANGED stack
    BY SubscribeIs
  <2> QED BY <1>1, <2>1, <2>2 DEF PlainBelow, tbce_sharedattributes_unsubscribe, MqttResponse,
                MqttConnected, MqttDisconnected, MqttUpdate, MqttData, tbcmh_attributes_subscribe, tbcmh_connect
<1>2. CASE FinishDisconnect \/ FinishDestroy \/ ReturnFromEvent
  BY <1>2 DEF FinishDisconnect, FinishDestroy, ReturnFromEvent, IsTop, Return
<1>3. CASE OnConnected \/ OnDisconnected
  BY <1>3 DEF OnConnected, OnDisconnected, Receive, Push
<1> QED BY <1>1, <1>2, <1>3, Zenon DEF Plain, PlainCall

\* All steps of the set and of the subscriptions below it.
LEMMA StepsAre ==
  ASSUME [NextSet]_allVars
  PROVE  \/ Plain
         \/ \E k \in Key : tbce_sharedattributes_unregister(k)
         \/ UNCHANGED <<set, values>> /\ tbcm_disconnect
         \/ /\ IsTop("update", "call") => Top.id \notin ours
            /\ UNCHANGED <<set, requested, values>>
            /\ \/ \E t \in Tasks, id \in Entry \ ours : tbcmh_attributes_unsubscribe(t, id)
               \/ tbcmh_disconnect
               \/ tbcmh_destroy
               \/ WalkOn
         \/ SubscriptionsWalk
         \/ OnUpdateOfSet
         \/ OnInitialized
         \/ WalkSet
         \/ ReturnFromSet
<1>1. CASE SetStep
  BY <1>1, Zenon DEF SetStep, Plain, Quiet
<1>2. CASE \/ (\E K \in (SUBSET Key) \ {{}} : MqttResponse(K)) \/ UNCHANGED allVars
  BY <1>2, Zenon DEF Plain
<1>3. CASE ConnectionLost
  BY <1>3, Zenon DEF ConnectionLost, Plain, PlainBelow
<1>4. CASE SubscriptionsStep
  <2>1. UNCHANGED <<set, values>>
    BY <1>4 DEF SubscriptionsStep
  <2> QED BY <1>4, <2>1, Zenon DEF SubscriptionsStep, Application, Plain, PlainBelow, PlainCall
<1> QED BY <1>1, <1>2, <1>3, <1>4, Zenon DEF NextSet

LEMMA FramesCalled ==
  ASSUME TypeOKSet, Frames, Onward, IsTop("update", "call") => Top.id \notin ours,
         tbcmh_disconnect \/ tbcmh_destroy
  PROVE  Frames'
<1> DEFINE w == WillReturn(Runner, 2)
           f == Call("flush", "step")
           d == Call("destroy", "step")
<1>1. /\ stack # << >> => Top.pc = "call"
      /\ stack' \in {Append(w, f), Append(w, d), Append(Append(w, d), f)}
  BY DEF tbcmh_disconnect, tbcmh_destroy, MayCall, InApplication
<1>2. /\ w \in Seq(Frame) /\ Len(w) = Len(stack)
      /\ \A i \in 1..Len(stack) : \/ w[i] = stack[i]
                                  \/ Sane(w[i], made'.attributes, ours', Ended')
  BY <1>1, WillReturnSane
<1>3. f \in Frame /\ d \in Frame /\ \A m, O, e : Sane(f, m, O, e) /\ Sane(d, m, O, e)
  BY CallIsFrame, CallSane
<1> HIDE DEF w, f, d
<1> DEFINE Fine(g) == Sane(g, made'.attributes, ours', Ended')
<1>4. \A i \in 1..Len(w) : i \in 1..Len(stack) /\ (w[i] = stack[i] \/ Fine(w[i]))
  BY <1>2
<1>5. Fine(f) /\ Fine(d)
  BY <1>3
<1> HIDE DEF Fine
<1>6. ASSUME NEW s \in Seq(Frame), NEW g \in {f, d},
             \A i \in 1..Len(s) : (i \in 1..Len(stack) /\ s[i] = stack[i]) \/ Fine(s[i])
      PROVE  /\ Append(s, g) \in Seq(Frame)
             /\ \A i \in 1..Len(Append(s, g)) :
                  (i \in 1..Len(stack) /\ Append(s, g)[i] = stack[i]) \/ Fine(Append(s, g)[i])
  <2>1. /\ g \in Frame /\ Fine(g) /\ Len(s) \in Nat
        /\ Append(s, g) \in Seq(Frame) /\ Len(Append(s, g)) = Len(s) + 1
        /\ Append(s, g)[Len(s) + 1] = g
        /\ \A i \in 1..Len(s) : Append(s, g)[i] = s[i]
    BY <1>3, <1>5, Pushed
  <2>2. ASSUME NEW i \in 1..Len(Append(s, g))
        PROVE  (i \in 1..Len(stack) /\ Append(s, g)[i] = stack[i]) \/ Fine(Append(s, g)[i])
    <3>1. CASE i = Len(s) + 1
      BY <2>1, <3>1
    <3>2. CASE i # Len(s) + 1
      <4>1. i \in 1..Len(s) /\ Append(s, g)[i] = s[i]
        BY <2>1, <3>2
      <4> QED BY <1>6, <4>1
    <3> QED BY <3>1, <3>2
  <2> QED BY <2>1, <2>2
<1>7. \A i \in 1..Len(w) : (i \in 1..Len(stack) /\ w[i] = stack[i]) \/ Fine(w[i])
  BY <1>4
<1>8. \A i \in 1..Len(stack') : (i \in 1..Len(stack) /\ stack'[i] = stack[i]) \/ Fine(stack'[i])
  <2>1. CASE stack' = Append(w, f) \/ stack' = Append(w, d)
    BY <1>2, <1>6, <1>7, <2>1
  <2>2. CASE stack' = Append(Append(w, d), f)
    <3> DEFINE s == Append(w, d)
    <3>1. /\ s \in Seq(Frame)
          /\ \A i \in 1..Len(s) : (i \in 1..Len(stack) /\ s[i] = stack[i]) \/ Fine(s[i])
      BY <1>2, <1>6, <1>7
    <3> HIDE DEF s
    <3>2. \A i \in 1..Len(Append(s, f)) :
            (i \in 1..Len(stack) /\ Append(s, f)[i] = stack[i]) \/ Fine(Append(s, f)[i])
      BY <1>6, <3>1
    <3> QED BY <2>2, <3>2 DEF s
  <2> QED BY <1>1, <2>1, <2>2
<1> QED BY <1>8, FramesFollow DEF Fine
\* A walk of the set leaves for its caller.
LEMMA FramesLeft ==
  ASSUME TypeOKSet, Frames, Onward, stack # << >>, LeaveWalk, Top.result = 0 \/ Ended'
  PROVE  Frames'
<1>1. /\ stack \in Seq(Frame) /\ Len(stack) \in Nat \ {0} /\ Top \in Frame /\ Top.result \in 0..2
      /\ Len(stack') = Len(stack) - 1
      /\ \A i \in 1..Len(stack) - 2 : stack'[i] = stack[i]
      /\ Len(stack) > 1 =>
           stack'[Len(stack) - 1] =
             IF stack[Len(stack) - 1].pc = "return"
             THEN [stack[Len(stack) - 1] EXCEPT !.result = Top.result]
             ELSE stack[Len(stack) - 1]
  BY LeaveWalkIs, TopIs DEF TypeOKSet, TypeOK, RunnerType, Frame
<1>2. ASSUME NEW i \in 1..Len(stack'), ~(i \in 1..Len(stack) /\ stack'[i] = stack[i])
      PROVE  Sane(stack'[i], made'.attributes, ours', Ended')
  <2>1. i = Len(stack) - 1 /\ i \in 1..Len(stack) /\ Len(stack) > 1
    BY <1>1, <1>2
  <2> DEFINE f == stack[i]
             g == [f EXCEPT !.result = Top.result]
  <2>2. stack'[i] = g /\ f.pc = "return" /\ f \in Frame
    BY <1>1, <1>2, <2>1
  <2>3. Sane(f, made.attributes, ours, Ended)
    BY <2>1 DEF Frames, SaneAll
  <2>4. Sane(f, made'.attributes, ours', Ended')
    BY <2>2, <2>3, SaneOn
  <2> HIDE DEF f
  <2>5. g.result = Top.result /\ g.pc = f.pc /\ SameWalk(g, f)
    BY <1>1, <2>2, ResultChanged
  <2> HIDE DEF g
  <2>6. Sane(g, made'.attributes, ours', Ended')
    BY <2>2, <2>4, <2>5 DEF Sane, SameWalk
  <2> QED BY <2>2, <2>6
<1> QED BY <1>2, FramesFollow

LEMMA FramesStep == TypeOKSet /\ Bounds /\ Frames /\ [NextSet]_allVars => Frames'
<1> SUFFICES ASSUME TypeOKSet, Bounds, Frames, [NextSet]_allVars PROVE Frames'
  OBVIOUS
<1>0. /\ Onward /\ SetType /\ ListsType /\ stack \in Seq(Frame) /\ Len(stack) \in Nat
      /\ made.attributes \in Nat /\ made'.attributes \in Nat /\ made.attributes <= made'.attributes
      /\ attributessubscribe_list \subseteq 1..made.attributes
      /\ cut \in BOOLEAN /\ ignored \in BOOLEAN
  BY OnwardStep, TypesAre DEF TypeOK, RunnerType, ValuesType, HistoryType, Onward, Bounds
<1> DEFINE Fine(f) == Sane(f, made'.attributes, ours', Ended')
\* The top, and the top with another pc.
<1>1. ASSUME stack # << >>
      PROVE  /\ Top \in Frame /\ Top.id \in Nat /\ Top.next \in Nat /\ Top.result \in 0..2
             /\ Sane(Top, made.attributes, ours, Ended) /\ Fine(Top)
  <2>1. Len(stack) \in 1..Len(stack) /\ Top = stack[Len(stack)] /\ Top \in Frame
    BY <1>0, <1>1, TopIs DEF Top
  <2>2. Sane(Top, made.attributes, ours, Ended)
    BY <2>1 DEF Frames, SaneAll
  <2>3. Top.id \in Nat /\ Top.next \in Nat /\ Top.result \in 0..2
    BY <2>1, SubscriptionsAssumption DEF Frame, Entry, End
  <2> QED BY <1>0, <2>1, <2>2, <2>3, SaneOn
<1>2. CASE Plain
  BY <1>0, <1>2, PlainIs, FramesPlain
<1>3. ASSUME stack # << >>, stack' = Below PROVE Frames'
  BY <1>0, <1>3, FramesPlain
<1>4. ASSUME NEW k \in Key, tbce_sharedattributes_unregister(k) PROVE Frames'
  <2>1. /\ stack' = WillReturn(Runner, 1) /\ (stack # << >> => Top.pc = "call" /\ Top.kind = "set")
    BY <1>4 DEF tbce_sharedattributes_unregister, InApplication
  <2>2. /\ Len(stack') = Len(stack)
        /\ \A i \in 1..Len(stack) : stack'[i] = stack[i] \/ Fine(stack'[i])
    BY <1>0, <2>1, WillReturnSane DEF IsTop
  <2> HIDE DEF Fine
  <2>3. \A i \in 1..Len(stack') : (i \in 1..Len(stack) /\ stack'[i] = stack[i]) \/ Fine(stack'[i])
    BY <2>2
  <2> QED BY <1>0, <2>3, FramesFollow DEF Fine
<1>5. ASSUME NEW t, NEW id, tbcmh_attributes_unsubscribe(t, id),
             IsTop("update", "call") => Top.id \notin ours
      PROVE  Frames'
  <2>1. /\ stack' = WillReturn(t, 1) /\ (t = Runner /\ stack # << >> => Top.pc = "call")
    BY <1>5 DEF tbcmh_attributes_unsubscribe, MayCall, InApplication
  <2>2. /\ Len(stack') = Len(stack)
        /\ \A i \in 1..Len(stack) : stack'[i] = stack[i] \/ Fine(stack'[i])
    BY <1>0, <1>5, <2>1, WillReturnSane
  <2> HIDE DEF Fine
  <2>3. \A i \in 1..Len(stack') : (i \in 1..Len(stack) /\ stack'[i] = stack[i]) \/ Fine(stack'[i])
    BY <2>2
  <2> QED BY <1>0, <2>3, FramesFollow DEF Fine
<1>6. ASSUME IsTop("update", "call") => Top.id \notin ours, tbcmh_disconnect \/ tbcmh_destroy
      PROVE  Frames'
  BY <1>0, <1>6, FramesCalled
<1>7. CASE tbcm_disconnect
  <2> DEFINE g == [Top EXCEPT !.kind = "drain"]
  <2>1. stack # << >> /\ Top.kind = "flush" /\ Top.pc = "step"
        /\ stack' = [stack EXCEPT ![Len(stack)] = g]
    BY <1>7 DEF tbcm_disconnect, IsTop, Return, Top
  <2>2. g \in Frame /\ g.kind = "drain" /\ g.pc = "step"
    <3>1. g \in Frame
      BY <1>1, <2>1, FrameChanged
    <3>2. g.kind = "drain" /\ g.pc = Top.pc
      BY <1>1, <2>1 DEF Frame
    <3> QED BY <2>1, <3>1, <3>2
  <2> HIDE DEF g
  <2>3. Fine(g)
    BY <2>2 DEF Sane
  <2> QED BY <1>0, <2>1, <2>2, <2>3, FramesPushed
<1>8. ASSUME OnUpdate PROVE Frames'
  <2>1. Started.next \in Nat /\ Started.next <= made'.attributes
    BY <1>0, <1>8, StartedIs DEF End
  <2>2. Fine(Started)
    BY <1>0, <1>8, <2>1, StartedIs DEF Sane, End
  <2> QED BY <1>0, <1>8, <2>2, StartedIs, FramesPushed
<1>9. ASSUME WalkOn PROVE Frames'
  <2>1. stack # << >> /\ Top.kind = "update"
    BY <1>9 DEF WalkOn, IsTop
  <2>2. CASE Top.next = End
    BY <1>3, <1>9, <2>1, <2>2 DEF WalkOn, Return
  <2>3. CASE Top.next # End
    <3>1. WalkedOn.next <= made'.attributes
      BY <1>0, <1>9, <2>3, WalkedOnIs DEF End
    <3>2. WalkedOn.id <= made'.attributes
      BY <1>0, <1>1, <1>9, <2>1, <2>3, WalkedOnIs DEF Sane
    <3>3. Fine(WalkedOn)
      BY <1>9, <2>3, <3>1, <3>2, WalkedOnIs DEF Sane
    <3> QED BY <1>0, <1>9, <2>1, <2>3, <3>3, WalkedOnIs, FramesPushed
  <2> QED BY <2>2, <2>3
\* The top goes on walking, with a result of 0 unless a walk has ended.
<1>10. ASSUME stack # << >>, Top.result = 0 \/ (Ended' /\ Top.kind = "update"),
              stack' = [stack EXCEPT ![Len(stack)].pc = "step"]
       PROVE  Frames'
  <2> DEFINE g == [Top EXCEPT !.pc = "step"]
  <2>1. stack' = [stack EXCEPT ![Len(stack)] = g]
    BY <1>10 DEF Top
  <2>2. g \in Frame /\ g.pc = "step" /\ g.result = Top.result /\ SameWalk(g, Top)
    BY <1>1, <1>10, PcChanged
  <2> HIDE DEF g
  <2>3. Fine(g)
    BY <1>1, <1>10, <2>2 DEF Sane, SameWalk
  <2> QED BY <1>0, <1>10, <2>1, <2>2, <2>3, FramesPushed
<1>11. ASSUME ReturnFromUpdate, Top.pc = "call" => Top.id \notin ours,
              cut' = (cut \/ EndsWalk(Top.id, Top.result))
       PROVE  Frames'
  <2>1. stack # << >> /\ Top.kind = "update"
    BY <1>11 DEF ReturnFromUpdate, IsTop
  <2>2. CASE EndsWalk(Top.id, Top.result) /\ Return(Below)
    BY <1>3, <2>1, <2>2 DEF Return
  <2>3. CASE /\ ~EndsWalk(Top.id, Top.result)
             /\ stack' = [stack EXCEPT ![Len(stack)].pc = "step"]
             /\ ignored' = (ignored \/ (keys[Top.id] = {} /\ Top.result # 0))
    <3>1. Top.result = 0 \/ keys[Top.id] = {}
      BY <2>3 DEF EndsWalk
    <3>2. ASSUME Top.result # 0 PROVE ignored' = TRUE
      <4>1. keys[Top.id] = {}
        BY <3>1, <3>2
      <4>2. ignored' = (ignored \/ TRUE)
        BY <2>3, <3>2, <4>1
      <4> QED BY <4>2
    <3>3. Top.result = 0 \/ Ended'
      BY <3>2, Zenon DEF Ended
    <3> QED BY <1>10, <2>1, <2>3, <3>3
  <2> QED BY <1>11, <2>2, <2>3 DEF ReturnFromUpdate
<1>12. CASE SubscriptionsWalk
  BY <1>8, <1>11, <1>12, Zenon DEF SubscriptionsWalk
<1>13. ASSUME NEW f \in Frame, stack' = Append(stack, f), f.kind = "set", f.pc = "step",
              f.result = 0
       PROVE  Frames'
  <2>1. Fine(f)
    BY <1>13 DEF Sane
  <2> QED BY <1>0, <1>13, <2>1, FramesPushed
<1>14. CASE OnInitialized
  <2>1. Receive("RESPONSE") /\ stack' = Append(stack, Walk(Head(queue).keys, Head(queue).number))
    BY <1>14 DEF OnInitialized, Push
  <2>2. Head(queue) \in Event /\ Head(queue).type = "RESPONSE"
    BY <2>1, ReceiveIs DEF TypeOKSet, TypeOK, RunnerType, QueueType
  <2>3. Head(queue).keys \in SUBSET Key /\ Head(queue).number \in Nat
    BY <2>2, ResponseIs
  <2> DEFINE f == Walk(Head(queue).keys, Head(queue).number)
  <2>4. f \in Frame /\ f.kind = "set" /\ f.pc = "step" /\ f.result = 0
    BY <1>0, <2>3, WalkIs DEF SetType
  <2> HIDE DEF f
  <2> QED BY <1>13, <2>1, <2>4 DEF f
<1>15. CASE OnUpdateOfSet
  <2> DEFINE g == [Top EXCEPT !.pc = "return"]
             f == Walk(Top.keys, Top.number)
  <2>1. stack # << >> /\ Top.kind = "update" /\ Top.pc = "call" /\ Top.id \in ours
        /\ stack' = Append([stack EXCEPT ![Len(stack)] = g], f)
        /\ UNCHANGED <<ours, cut, ignored>>
    BY <1>15 DEF OnUpdateOfSet, IsTop, Top, set, values, history
  <2>2. g \in Frame /\ g.pc = "return" /\ g.result = Top.result /\ SameWalk(g, Top)
    BY <1>1, <2>1, PcChanged
  <2>3. f \in Frame /\ f.kind = "set" /\ f.pc = "step" /\ f.result = 0
    <3>1. Top.keys \in SUBSET Key /\ Top.number \in Nat
      BY <1>1, <2>1 DEF Frame
    <3> QED BY <1>0, <3>1, WalkIs DEF SetType
  <2> HIDE DEF f, g
  <2>4. Fine(g)
    <3>1. Top.result = 0 \/ Ended
      BY <1>1, <2>1, Zenon DEF Sane
    <3>2. Ended' = Ended
      BY <2>1 DEF Ended
    <3>3. Top.result = 0 \/ Ended'
      BY <3>1, <3>2, Zenon
    <3>4. g.result = 0 \/ Ended'
      BY <2>2, <3>3, Zenon
    <3> HIDE DEF Fine
    <3>5. Fine(Top)
      BY <1>1, <2>1
    <3> USE DEF Fine
    <3> QED BY <2>1, <2>2, <3>4, <3>5 DEF Sane, SameWalk
  <2>5. Fine(f)
    BY <2>3 DEF Sane
  <2> HIDE DEF Fine
  <2> DEFINE s == [stack EXCEPT ![Len(stack)] = g]
  <2>6. /\ s \in Seq(Frame) /\ Len(s) = Len(stack) /\ s[Len(stack)] = g
        /\ \A i \in 1..Len(stack) : i # Len(stack) => s[i] = stack[i]
    BY <1>0, <2>1, <2>2, TopChanged
  <2> HIDE DEF s
  <2>7. /\ stack' = Append(s, f) /\ Len(stack') = Len(s) + 1 /\ stack'[Len(s) + 1] = f
        /\ \A i \in 1..Len(s) : stack'[i] = s[i]
    <3>1. stack' = Append(s, f)
      BY <2>1 DEF s
    <3> QED BY <2>3, <2>6, <3>1, Pushed
  <2>8. ASSUME NEW i \in 1..Len(stack')
        PROVE  (i \in 1..Len(stack) /\ stack'[i] = stack[i]) \/ Fine(stack'[i])
    <3>1. CASE i = Len(stack) + 1
      BY <2>5, <2>6, <2>7, <3>1
    <3>2. CASE i = Len(stack)
      BY <1>0, <2>4, <2>6, <2>7, <3>2
    <3>3. CASE i # Len(stack) /\ i # Len(stack) + 1
      BY <1>0, <2>6, <2>7, <3>3
    <3> QED BY <3>1, <3>2, <3>3
  <2> QED BY <1>0, <2>8, FramesFollow DEF Fine
<1>16. CASE WalkSet
  <2>1. stack # << >> /\ Top.kind = "set" /\ Top.pc = "step"
    BY <1>16 DEF WalkSet, IsTop
  <2>2. Top.result = 0
    BY <1>1, <2>1 DEF Sane
  <2>3. CASE Top.next = End /\ LeaveWalk
    BY <1>0, <2>1, <2>2, <2>3, FramesLeft
  <2>4. CASE Top.next # End
    <3>1. PICK f \in Frame : /\ stack' = [stack EXCEPT ![Len(stack)] = f]
                             /\ f.kind = "set" /\ f.result = Top.result
                             /\ f.pc = (IF IsSet(Top.next) THEN "call" ELSE "step")
      BY <1>16, <2>4, WalkSetIs
    <3>2. Fine(f)
      BY <2>2, <3>1 DEF Sane
    <3> QED BY <1>0, <2>1, <3>1, <3>2, FramesPushed
  <2> QED BY <1>16, <2>3, <2>4 DEF WalkSet
<1>17. CASE ReturnFromSet
  <2>1. stack # << >>
    BY <1>17 DEF ReturnFromSet, IsTop
  <2>2. CASE LeaveWalk /\ cut' = TRUE
    <3>1. Ended'
      BY <2>2, Zenon DEF Ended
    <3> QED BY <1>0, <2>1, <2>2, <3>1, FramesLeft
  <2>3. CASE Top.result = 0 /\ stack' = [stack EXCEPT ![Len(stack)].pc = "step"]
    BY <1>10, <2>1, <2>3
  <2> QED BY <1>17, <2>2, <2>3 DEF ReturnFromSet
<1> HIDE DEF Fine
<1> QED BY <1>2, <1>4, <1>5, <1>6, <1>7, <1>9, <1>12, <1>14, <1>15, <1>16, <1>17, StepsAre, Zenon
-----------------------------------------------------------------------------
(* DeviceIsUpToDate: what is still to come.                                *)

Walks == {"update", "set"}

\* No walk was cut short, none will be, and no result was or will be ignored.
Clean ==
  /\ ~Ended
  /\ \A i \in 1..Len(stack) : stack[i].kind \in Walks => stack[i].result = 0

\* Then a walk runs inside of no other, but for the walk of the set in its own entry.
Alone ==
  \A i \in 1..Len(stack) - 1 : stack[i].kind \in Walks =>
    i = Len(stack) - 1 /\ stack[i].pc = "return" /\ Top.kind = "set"

\* No newer message was heard than that of the walk.
Ahead ==
  \A i \in 1..Len(stack) : stack[i].kind \in Walks =>
    \A k \in Key : heard[k] <= stack[i].number

\* The keys whose last message the device does not have.
Behind == {k \in Key : device[k] < heard[k]}

Reaches(f, n) == f.next # End /\ f.next <= n

\* The walk at the top will still call the on_set of k: its message has the key,
\* and the entry of the set or the attribute is not behind it.
ToCome(k) ==
  /\ stack # << >>
  /\ k \in Top.keys \cap Watched
  /\ \/ /\ Top.kind = "update"
        /\ \E e \in ours \cap attributessubscribe_list :
             /\ k \in keys[e]
             /\ Reaches(Top, e) \/ (Top.pc = "call" /\ Top.id = e)
     \/ /\ Top.kind = "set"
        /\ \E n \in Subscribed : key[n] = k /\ Reaches(Top, n)

UpToDate == Clean => Alone /\ Ahead /\ \A k \in Behind : ToCome(k)

\* After is the next one.
LEMMA AfterIsNext ==
  ASSUME NEW n \in Nat, NEW S \in SUBSET Nat, NEW m \in S, n < m
  PROVE  After(n, S) # End /\ After(n, S) \in S /\ After(n, S) <= m
<1> DEFINE T == {o \in S : o > n}
<1>1. T \in SUBSET Nat /\ T # {}
  OBVIOUS
<1>2. PICK f \in T : \A o \in T : f <= o
  BY <1>1, Smallest
<1>3. \E o \in S : o > n /\ \A q \in S : q > n => o <= q
  BY <1>2
<1>4. After(n, S) = CHOOSE o \in S : o > n /\ \A q \in S : q > n => o <= q
  BY DEF After
<1>5. After(n, S) \in S /\ After(n, S) > n /\ \A q \in S : q > n => After(n, S) <= q
  BY <1>3, <1>4
<1> QED BY <1>5 DEF End

\* Without a walk at the top there is none, and nothing is to come.
LEMMA NoWalk ==
  ASSUME TypeOKSet, UpToDate, Clean, stack # << >> => Top.kind \notin Walks
  PROVE  Behind = {} /\ \A i \in 1..Len(stack) : stack[i].kind \notin Walks
<1>1. stack \in Seq(Frame) /\ Len(stack) \in Nat
  BY DEF TypeOKSet, TypeOK, RunnerType
<1>2. Behind = {}
  BY DEF UpToDate, ToCome, Walks
<1>3. ASSUME NEW i \in 1..Len(stack), stack[i].kind \in Walks PROVE FALSE
  <2>1. stack # << >>
    BY <1>1
  <2>2. CASE i = Len(stack)
    BY <1>3, <2>1, <2>2 DEF Top
  <2>3. CASE i # Len(stack)
    <3>1. i \in 1..Len(stack) - 1
      BY <1>1, <2>3
    <3> QED BY <1>3, <2>1, <3>1 DEF UpToDate, Alone, Walks
  <2> QED BY <2>2, <2>3
<1> QED BY <1>2, <1>3

LEMMA NoWalkNext ==
  ASSUME Behind' = {}, \A i \in 1..Len(stack') : stack'[i].kind \notin Walks,
         Len(stack') \in Nat
  PROVE  UpToDate'
<1>1. Alone' /\ Ahead'
  BY DEF Alone, Ahead
<1> QED BY <1>1 DEF UpToDate

\* A step that leaves all walks as they are, when none is at the top.
LEMMA AsideStep ==
  ASSUME TypeOKSet, TypeOKSet', UpToDate, stack # << >> => Top.kind \notin Walks,
         UNCHANGED <<device, heard, cut, ignored>>,
         \A i \in 1..Len(stack) : stack[i].kind \in Walks =>
           i \in 1..Len(stack') /\ stack'[i] = stack[i],
         \A i \in 1..Len(stack') : stack'[i].kind \in Walks =>
           i \in 1..Len(stack) /\ stack[i].kind \in Walks
  PROVE  UpToDate'
<1>1. Len(stack') \in Nat
  BY DEF TypeOKSet, TypeOK, RunnerType
<1>2. Behind' = Behind
  BY DEF Behind
<1>3. ASSUME Clean' PROVE Clean
  BY <1>3 DEF Clean, Ended
<1>4. CASE Clean'
  BY <1>1, <1>2, <1>3, <1>4, NoWalk, NoWalkNext
<1> QED BY <1>4 DEF UpToDate

\* A step that leaves the stack, the set and its entries.
LEMMA ElsewhereStep ==
  ASSUME UpToDate,
         UNCHANGED <<stack, device, heard, cut, ignored, sharedattribute_list, key, subscribe_id>>,
         \A e \in ours \cap attributessubscribe_list :
           e \in ours' \cap attributessubscribe_list' /\ keys'[e] = keys[e]
  PROVE  UpToDate'
<1>1. Behind' = Behind /\ Top' = Top /\ Watched' = Watched /\ Subscribed' = Subscribed
  BY DEF Behind, Top, Watched, Subscribed
<1>2. Clean' <=> Clean
  BY DEF Clean, Ended
<1>3. ASSUME NEW k, ToCome(k) PROVE ToCome(k)'
  BY <1>1, <1>3 DEF ToCome, Reaches
<1>4. (Alone => Alone') /\ (Ahead => Ahead')
  BY <1>1 DEF Alone, Ahead
<1> QED BY <1>1, <1>2, <1>3, <1>4 DEF UpToDate

\* A callback inside of a walk that will return 1 or 2 ends it.
LEMMA WillReturnEnds ==
  ASSUME stack \in Seq(Frame), stack # << >>, NEW r \in 1..2
  PROVE  /\ Len(WillReturn(Runner, r)) = Len(stack)
         /\ Len(stack) \in 1..Len(stack)
         /\ WillReturn(Runner, r)[Len(stack)].kind = Top.kind
         /\ WillReturn(Runner, r)[Len(stack)].result # 0
         /\ \A i \in 1..Len(stack) - 1 : WillReturn(Runner, r)[i] = stack[i]
<1> DEFINE w == WillReturn(Runner, r)
           g == [Top EXCEPT !.result = r]
<1>1. /\ Len(w) = Len(stack)
      /\ \A i \in 1..Len(stack) : w[i] = IF i = Len(stack) /\ stack[i].result < r
                                         THEN [stack[i] EXCEPT !.result = r] ELSE stack[i]
  BY WillReturnIs
<1>2. Len(stack) \in Nat \ {0} /\ Top \in Frame /\ Top = stack[Len(stack)] /\ Top.result \in 0..2
  BY TopIs DEF Top, Frame
<1> HIDE DEF w
<1>3. w[Len(stack)] = IF Top.result < r THEN g ELSE Top
  BY <1>1, <1>2
<1>4. g.result = r /\ g.kind = Top.kind
  BY <1>2, ResultChanged DEF SameWalk
<1> HIDE DEF g
<1>5. w[Len(stack)].kind = Top.kind /\ w[Len(stack)].result # 0
  BY <1>2, <1>3, <1>4
<1>6. ASSUME NEW i \in 1..Len(stack) - 1 PROVE w[i] = stack[i]
  <2>1. i \in 1..Len(stack) /\ i # Len(stack)
    BY <1>2
  <2> QED BY <1>1, <2>1
<1>7. Len(stack) \in 1..Len(stack)
  BY <1>2
<1> QED BY <1>1, <1>5, <1>6, <1>7 DEF w
\* The Runner begins a walk: nothing else runs that walks, and all is to come.
LEMMA BeginStep ==
  ASSUME TypeOKSet, InOrder, UpToDate, NEW type, Receive(type), Numbered(Head(queue)),
         Hear(Head(queue).keys, Head(queue).number), UNCHANGED <<device, cut, ignored>>,
         NEW f \in Frame, f.kind \in Walks, f.number = Head(queue).number,
         stack' = Append(stack, f),
         \A k \in Head(queue).keys \cap Watched : ToCome(k)'
  PROVE  UpToDate'
<1>1. /\ stack \in Seq(Frame) /\ Len(stack) \in Nat
      /\ Len(stack') = Len(stack) + 1 /\ stack'[Len(stack) + 1] = f
      /\ \A i \in 1..Len(stack) : stack'[i] = stack[i]
      /\ queue[1] = Head(queue) /\ 1 \in 1..Len(queue)
  <2>1. stack \in Seq(Frame) /\ QueueType
    BY DEF TypeOKSet, TypeOK, RunnerType, QueueType
  <2>2. queue[1] = Head(queue) /\ 1 \in 1..Len(queue)
    BY <2>1, ReceiveIs
  <2> QED BY <2>1, <2>2, Pushed
<1> SUFFICES ASSUME Clean' PROVE Alone' /\ Ahead' /\ \A k \in Behind' : ToCome(k)'
  BY DEF UpToDate
<1>2. Clean
  <2>1. \A i \in 1..Len(stack) : i \in 1..Len(stack')
    BY <1>1
  <2> QED BY <1>1, <2>1 DEF Clean, Ended
<1>3. Behind = {} /\ \A i \in 1..Len(stack) : stack[i].kind \notin Walks
  BY <1>2, NoWalk DEF Receive, Walks
<1>4. Alone'
  <2>1. \A i \in 1..Len(stack') - 1 : i \in 1..Len(stack) /\ stack'[i] = stack[i]
    BY <1>1
  <2> QED BY <1>3, <2>1 DEF Alone
<1>5. \A k \in Key : heard'[k] = (IF k \in Head(queue).keys \cap Watched
                                  THEN Head(queue).number ELSE heard[k])
  BY DEF Hear
<1>6. Head(queue).number \in Nat /\ \A k \in Key : heard[k] <= Head(queue).number
  BY <1>1, NumbersAre DEF InOrder
<1>7. \A k \in Key : heard'[k] <= f.number
  BY <1>5, <1>6
<1>8. Ahead'
  <2>1. \A i \in 1..Len(stack') : i = Len(stack) + 1 \/ (i \in 1..Len(stack) /\ stack'[i] = stack[i])
    BY <1>1
  <2> QED BY <1>1, <1>3, <1>7, <2>1 DEF Ahead
<1>9. ASSUME NEW k \in Behind' PROVE ToCome(k)'
  <2>1. k \in Key /\ device[k] < heard'[k] /\ ~(device[k] < heard[k])
    BY <1>3 DEF Behind
  <2>2. k \in Head(queue).keys \cap Watched
    BY <1>5, <2>1
  <2> QED BY <2>2
<1> QED BY <1>4, <1>8, <1>9

\* A subscribed attribute has an entry that the client's list still holds.
LEMMA WatchedIs ==
  ASSUME TypeOKSet, ListedInv, Bounds, alive, NEW k \in Watched
  PROVE  \E n \in Subscribed : /\ n \in Entry /\ key[n] = k
                               /\ subscribe_id[n] \in ours \cap attributessubscribe_list
                               /\ k \in keys[subscribe_id[n]]
<1>1. PICK n \in Subscribed : key[n] = k
  BY DEF Watched
<1>2. n \in sharedattribute_list /\ n \in Entry /\ client \in {"NULL", "client", "gone"}
  BY DEF Subscribed, TypeOKSet
<1>3. client = "client"
  BY <1>2 DEF ListedInv, Bounds
<1>4. Fits(n)
  BY <1>3 DEF ListedInv
<1> QED BY <1>1, <1>2, <1>4 DEF Fits

LEMMA OnUpdateStep ==
  ASSUME TypeOKSet, ListedInv, Bounds, InOrder, UpToDate, OnUpdate,
         Hear(Head(queue).keys, Head(queue).number), UNCHANGED <<set, device, cut>>
  PROVE  UpToDate'
<1>1. /\ Receive("UPDATE") /\ alive
      /\ UNCHANGED <<ignored, attributessubscribe_list, keys>>
  BY DEF OnUpdate, Receive, history, lists
<1>2. Numbered(Head(queue))
  BY <1>1 DEF Receive, Numbered
<1>3. /\ Started \in Frame
      /\ Started.kind = "update" /\ Started.pc = "step" /\ Started.result = 0
      /\ Started.keys = Head(queue).keys /\ Started.number = Head(queue).number
      /\ Started.next = After(End, attributessubscribe_list)
      /\ stack' = Append(stack, Started)
  BY StartedIs
<1>4. stack' # << >> /\ Top' = Started
  <2>1. stack \in Seq(Frame)
    BY DEF TypeOKSet, TypeOK, RunnerType
  <2> HIDE DEF Started
  <2>2. Len(stack') = Len(stack) + 1 /\ stack'[Len(stack) + 1] = Started /\ stack' \in Seq(Frame)
        /\ Len(stack) \in Nat
    BY <1>3, <2>1, Pushed
  <2> QED BY <2>2 DEF Top
<1>5. UNCHANGED <<sharedattribute_list, key, subscribe_id, ours>>
  BY DEF set
<1>6. Watched' = Watched
  BY <1>5 DEF Watched, Subscribed
<1>7. ASSUME NEW k \in Head(queue).keys \cap Watched PROVE ToCome(k)'
  <2>1. PICK e \in ours \cap attributessubscribe_list : k \in keys[e]
    BY <1>1, WatchedIs
  <2>2. attributessubscribe_list \in SUBSET Nat /\ End < e /\ End \in Nat
        /\ e \in attributessubscribe_list
    <3>1. attributessubscribe_list \subseteq Entry
      BY DEF TypeOKSet, TypeOK, ListsType
    <3>2. e \in Entry
      BY <2>1, <3>1
    <3>3. \A i \in Entry : i \in Nat /\ 0 < i
      BY SubscriptionsAssumption DEF Entry
    <3> QED BY <2>1, <3>1, <3>2, <3>3 DEF End
  <2>3. Reaches(Started, e)
    BY <1>3, <2>2, AfterIsNext DEF Reaches
  <2>4. e \in ours' \cap attributessubscribe_list' /\ k \in keys'[e]
    BY <1>1, <1>5, <2>1
  <2>5. Reaches(Top, e)'
    BY <1>4, <2>3 DEF Reaches
  <2> QED BY <1>3, <1>4, <1>6, <2>4, <2>5 DEF ToCome
<1> HIDE DEF Started
<1> QED BY <1>1, <1>2, <1>3, <1>7, BeginStep DEF Walks

\* The attributes that a walk of the set reaches.
LEMMA WalkReaches ==
  ASSUME TypeOKSet, NEW K \in SUBSET Key, NEW number \in Nat, NEW n \in sharedattribute_list
  PROVE  Reaches(Walk(K, number), n)
<1>1. sharedattribute_list \subseteq Entry
  BY DEF TypeOKSet
<1>2. sharedattribute_list \in SUBSET Nat /\ End \in Nat /\ End < n
  BY <1>1, SubscriptionsAssumption DEF Entry, End
<1>3. Walk(K, number).next = After(End, sharedattribute_list)
  BY <1>1, WalkIs
<1> QED BY <1>2, <1>3, AfterIsNext DEF Reaches

LEMMA OnInitializedStep ==
  ASSUME TypeOKSet, InOrder, UpToDate, OnInitialized
  PROVE  UpToDate'
<1> DEFINE f == Walk(Head(queue).keys, Head(queue).number)
<1>1. /\ Receive("RESPONSE") /\ Hear(Head(queue).keys, Head(queue).number)
      /\ UNCHANGED <<ignored, device, cut, set>> /\ stack' = Append(stack, f)
  BY DEF OnInitialized, Receive, history, Push
<1>2. Numbered(Head(queue))
  BY <1>1 DEF Receive, Numbered
<1>3. Head(queue).keys \in SUBSET Key /\ Head(queue).number \in Nat
      /\ sharedattribute_list \subseteq Entry /\ stack \in Seq(Frame)
  <2>1. Head(queue) \in Event /\ Head(queue).type = "RESPONSE"
    BY <1>1, ReceiveIs DEF TypeOKSet, TypeOK, RunnerType, QueueType
  <2> QED BY <2>1, ResponseIs DEF TypeOKSet, TypeOK, RunnerType
<1>4. f \in Frame /\ f.kind = "set" /\ f.keys = Head(queue).keys /\ f.number = Head(queue).number
  BY <1>3, WalkIs
<1>5. \A n \in sharedattribute_list : Reaches(f, n)
  BY <1>3, WalkReaches
<1> HIDE DEF f
<1>6. stack' # << >> /\ Top' = f
  <2>1. Len(stack') = Len(stack) + 1 /\ stack'[Len(stack) + 1] = f /\ stack' \in Seq(Frame)
        /\ Len(stack) \in Nat
    BY <1>1, <1>3, <1>4, Pushed
  <2> QED BY <2>1 DEF Top
<1>7. Watched' = Watched /\ Subscribed' = Subscribed /\ key' = key
  BY <1>1 DEF Watched, Subscribed, set
<1>8. ASSUME NEW k \in Head(queue).keys \cap Watched PROVE ToCome(k)'
  <2>1. PICK n \in Subscribed : key[n] = k
    BY DEF Watched
  <2>2. Reaches(f, n)
    BY <1>5 DEF Subscribed
  <2>3. Reaches(Top, n)'
    BY <1>6, <2>2 DEF Reaches
  <2> QED BY <1>4, <1>6, <1>7, <2>1, <2>3 DEF ToCome
<1> QED BY <1>1, <1>2, <1>4, <1>8, BeginStep DEF Walks
\* The walk at the top goes on.
LEMMA ChangeStep ==
  ASSUME TypeOKSet, UpToDate, stack # << >>, Top.kind \in Walks, NEW f \in Frame,
         stack' = [stack EXCEPT ![Len(stack)] = f],
         f.kind = Top.kind, f.number = Top.number,
         UNCHANGED heard, Ended => Ended', ~Ended /\ f.result = 0 => Top.result = 0,
         Clean /\ Alone /\ Ahead => \A k \in Behind' : k \in Behind /\ (ToCome(k) => ToCome(k)')
  PROVE  UpToDate'
<1>1. /\ stack \in Seq(Frame) /\ Len(stack) \in Nat \ {0}
      /\ Len(stack') = Len(stack) /\ stack'[Len(stack)] = f
      /\ \A i \in 1..Len(stack) : i # Len(stack) => stack'[i] = stack[i]
      /\ Top = stack[Len(stack)]
  BY TopIs, TopChanged DEF TypeOKSet, TypeOK, RunnerType, Top
<1> SUFFICES ASSUME Clean' PROVE Alone' /\ Ahead' /\ \A k \in Behind' : ToCome(k)'
  BY DEF UpToDate
<1>2. Clean
  <2>0. ~Ended
    BY Zenon DEF Clean
  <2>1. f.result = 0
    <3>0. Len(stack) \in Nat \ {0} /\ Len(stack') = Len(stack) /\ stack'[Len(stack)] = f
      BY <1>1, Zenon
    <3>1. Len(stack) \in 1..Len(stack') /\ stack'[Len(stack)].kind \in Walks
      BY ONLY <3>0, f.kind = Top.kind, Top.kind \in Walks
    <3>2. stack'[Len(stack)].result = 0
      BY <3>1 DEF Clean
    <3> QED BY <1>1, <3>2
  <2>2. ASSUME NEW i \in 1..Len(stack), stack[i].kind \in Walks PROVE stack[i].result = 0
    <3>1. CASE i = Len(stack)
      BY <1>1, <2>0, <2>1, <3>1, Zenon
    <3>2. CASE i # Len(stack)
      <4>1. i \in 1..Len(stack') /\ stack'[i] = stack[i]
        BY <1>1, <3>2, Zenon
      <4> QED BY <2>2, <4>1 DEF Clean
    <3> QED BY <3>1, <3>2
  <2> QED BY <2>0, <2>2 DEF Clean
<1>3. Alone /\ Ahead
  BY <1>2 DEF UpToDate
<1>4. Top' = f
  BY <1>1, Zenon DEF Top
<1>5. Alone'
  <2>0. Len(stack) \in Nat /\ Len(stack') = Len(stack)
    BY <1>1, Zenon
  <2>1. \A i \in 1..Len(stack') - 1 : i \in 1..Len(stack) - 1 /\ i \in 1..Len(stack) /\ i # Len(stack)
    BY ONLY <2>0
  <2>2. \A i \in 1..Len(stack') - 1 : i \in 1..Len(stack) - 1 /\ stack'[i] = stack[i]
    BY <1>1, <2>1, Zenon
  <2> QED BY <1>1, <1>3, <1>4, <2>2, Zenon DEF Alone
<1>6. Ahead'
  <2>1. \A i \in 1..Len(stack') : i \in 1..Len(stack) /\ stack'[i].kind = stack[i].kind
                                  /\ stack'[i].number = stack[i].number
    BY <1>1, Zenon
  <2> QED BY <1>3, <2>1 DEF Ahead
<1>7. ASSUME NEW k \in Behind' PROVE ToCome(k)'
  BY <1>2, <1>3, <1>7 DEF UpToDate
<1> QED BY <1>5, <1>6, <1>7

\* The walk at the top has come to its end: all was delivered.
LEMMA LeaveStep ==
  ASSUME TypeOKSet, Frames, UpToDate, stack # << >>, Top.kind \in Walks,
         UNCHANGED <<heard, device>>, Ended => Ended', Top.result = 0 \/ Ended',
         Clean => Behind = {},
         Len(stack') = Len(stack) - 1,
         \A i \in 1..Len(stack) - 1 : \/ stack'[i] = stack[i]
                                      \/ /\ stack[i].pc = "return"
                                         /\ SameWalk(stack'[i], stack[i])
  PROVE  UpToDate'
<1>1. stack \in Seq(Frame) /\ Len(stack) \in Nat \ {0} /\ Top = stack[Len(stack)]
  BY TopIs DEF TypeOKSet, TypeOK, RunnerType, Top
<1> SUFFICES ASSUME Clean' PROVE Alone' /\ Ahead' /\ \A k \in Behind' : ToCome(k)'
  BY DEF UpToDate
<1>2. ~Ended /\ ~Ended'
  BY Zenon DEF Clean
<1>3. ASSUME NEW i \in 1..Len(stack), stack[i].kind \in Walks PROVE stack[i].result = 0
  <2>1. CASE i = Len(stack)
    BY <1>1, <1>2, <2>1
  <2>2. CASE i # Len(stack)
    <3>1. i \in 1..Len(stack) - 1 /\ i \in 1..Len(stack')
      BY <1>1, <2>2
    <3>2. CASE stack'[i] = stack[i]
      BY <1>3, <3>1, <3>2 DEF Clean
    <3>3. CASE stack[i].pc = "return"
      <4>1. Sane(stack[i], made.attributes, ours, Ended)
        BY DEF Frames, SaneAll
      <4> QED BY <1>2, <3>3, <4>1 DEF Sane
    <3> QED BY <3>1, <3>2, <3>3
  <2> QED BY <2>1, <2>2
<1>4. Clean
  BY <1>2, <1>3 DEF Clean
<1>5. Alone /\ Ahead /\ Behind = {}
  BY <1>4 DEF UpToDate
<1>6. \A i \in 1..Len(stack') : /\ i \in 1..Len(stack) /\ i \in 1..Len(stack) - 1
                                /\ stack'[i].kind = stack[i].kind
                                /\ stack'[i].number = stack[i].number
  BY <1>1 DEF SameWalk
<1>7. Alone'
  <2>1. \A i \in 1..Len(stack') - 1 : i \in 1..Len(stack') /\ i # Len(stack) - 1
    BY <1>1
  <2> QED BY <1>5, <1>6, <2>1 DEF Alone
<1>8. Ahead'
  BY <1>5, <1>6 DEF Ahead
<1>9. Behind' = {}
  BY <1>5 DEF Behind
<1> QED BY <1>7, <1>8, <1>9

LEMMA WalkOnStep ==
  ASSUME TypeOKSet, Frames, UpToDate, WalkOn, UNCHANGED <<set, values>>
  PROVE  UpToDate'
<1>1. /\ stack \in Seq(Frame) /\ stack # << >> /\ Top.kind = "update" /\ Top.pc = "step"
      /\ UNCHANGED <<attributessubscribe_list, keys, ignored, cut, heard, device, ours,
                     sharedattribute_list, key, subscribe_id>>
  BY DEF TypeOKSet, TypeOK, RunnerType, WalkOn, IsTop, lists, history, set, values
<1>2. Ended' = Ended /\ Watched' = Watched /\ Behind' = Behind
  BY <1>1 DEF Ended, Watched, Subscribed, Behind
<1>3. ~Ended => Top.result = 0
  <2>1. Sane(Top, made.attributes, ours, Ended)
    BY <1>1, TopIs DEF Frames, SaneAll, Top
  <2> QED BY <1>1, <2>1 DEF Sane
<1>4. CASE Top.next = End
  <2>1. stack' = Below
    BY <1>4 DEF WalkOn, Return
  <2>2. Len(stack') = Len(stack) - 1 /\ \A i \in 1..Len(stack) - 1 : stack'[i] = stack[i]
    BY <1>1, <2>1, Popped DEF Below
  <2>3. Clean => Behind = {}
    BY <1>1, <1>4 DEF UpToDate, ToCome, Reaches
  <2>4. Top.result = 0 \/ Ended'
    BY <1>2, <1>3, Zenon
  <2>5. Ended => Ended'
    BY <1>2, Zenon
  <2> QED BY <1>1, <2>2, <2>3, <2>4, <2>5, LeaveStep DEF Walks
<1>5. CASE Top.next # End
  <2>1. /\ WalkedOn \in Frame
        /\ WalkedOn.kind = "update" /\ WalkedOn.result = 0
        /\ WalkedOn.id = Top.next
        /\ WalkedOn.next = After(Top.next, attributessubscribe_list)
        /\ WalkedOn.keys = Top.keys /\ WalkedOn.number = Top.number
        /\ WalkedOn.pc = (IF keys[Top.next] = {} \/ keys[Top.next] \cap Top.keys # {}
                          THEN "call" ELSE "step")
        /\ stack' = [stack EXCEPT ![Len(stack)] = WalkedOn]
    BY <1>5, WalkedOnIs
  <2> DEFINE f == WalkedOn
  <2>2. Top' = f /\ stack' # << >>
    BY <1>1, <2>1, TopChanged DEF Top
  <2>3. attributessubscribe_list \in SUBSET Nat /\ Top.next \in Nat
    <3>1. Top \in Frame /\ attributessubscribe_list \subseteq Entry
      BY <1>1, TopIs DEF TypeOKSet, TypeOK, ListsType
    <3>2. Entry \subseteq Nat /\ End \in Nat
      BY SubscriptionsAssumption DEF Entry, End
    <3>3. Top.next \in Entry \cup {End}
      BY <3>1 DEF Frame
    <3> QED BY <3>1, <3>2, <3>3
  <2>4. ASSUME NEW k, ToCome(k) PROVE ToCome(k)'
    <3>1. /\ k \in Top.keys \cap Watched
          /\ \E e \in ours \cap attributessubscribe_list :
               k \in keys[e] /\ Reaches(Top, e)
      BY <1>1, <2>4 DEF ToCome
    <3>2. PICK e \in ours \cap attributessubscribe_list : k \in keys[e] /\ Reaches(Top, e)
      BY <3>1
    <3>3. CASE e = Top.next
      <4>1. f.pc = "call" /\ f.id = e
        BY <2>1, <3>1, <3>2, <3>3
      <4> HIDE DEF f
      <4>2. (Top.pc = "call" /\ Top.id = e)'
        BY <2>2, <4>1
      <4> QED BY <1>1, <1>2, <2>1, <2>2, <3>1, <3>2, <4>2 DEF ToCome, f
    <3>4. CASE e # Top.next
      <4>1. Top.next < e /\ e \in attributessubscribe_list
        BY <2>3, <3>2, <3>4 DEF Reaches
      <4>2. Reaches(f, e)
        BY <2>1, <2>3, <4>1, AfterIsNext DEF Reaches
      <4> HIDE DEF f
      <4>3. Reaches(Top, e)'
        BY <2>2, <4>2 DEF Reaches
      <4> QED BY <1>1, <1>2, <2>1, <2>2, <3>1, <3>2, <4>3 DEF ToCome, f
    <3> QED BY <3>3, <3>4
  <2>5. Ended => Ended'
    BY <1>2, Zenon
  <2>6. ~Ended /\ f.result = 0 => Top.result = 0
    BY <1>3, Zenon
  <2> HIDE DEF f
  <2>7. \A k \in Behind' : k \in Behind /\ (ToCome(k) => ToCome(k)')
    BY <1>2, <2>4
  <2> QED BY <1>1, <2>1, <2>5, <2>6, <2>7, ChangeStep DEF Walks, f
<1> QED BY <1>4, <1>5

\* on_update of the application returns, or that of the set after its walk.
LEMMA ReturnFromUpdateStep ==
  ASSUME TypeOKSet, Onward, UpToDate, ReturnFromUpdate, UNCHANGED <<set, device, heard>>,
         Top.pc = "call" => Top.id \notin ours,
         cut' = (cut \/ EndsWalk(Top.id, Top.result))
  PROVE  UpToDate'
<1>1. /\ stack \in Seq(Frame) /\ stack # << >> /\ Top.kind = "update" /\ Top \in Frame
      /\ UNCHANGED <<attributessubscribe_list, keys, heard, device, ours,
                     sharedattribute_list, key, subscribe_id>>
  BY TopIs DEF TypeOKSet, TypeOK, RunnerType, ReturnFromUpdate, IsTop, lists, set
<1>2. Watched' = Watched /\ Behind' = Behind
  BY <1>1 DEF Watched, Subscribed, Behind
<1>3. CASE EndsWalk(Top.id, Top.result)
  <2>1. cut'
    BY <1>3, Zenon
  <2>2. ~Clean'
    BY <2>1, Zenon DEF Clean, Ended
  <2> QED BY <2>2, Zenon DEF UpToDate
<1>4. CASE ~EndsWalk(Top.id, Top.result)
  <2> DEFINE g == [Top EXCEPT !.pc = "step"]
  <2>1. stack' = [stack EXCEPT ![Len(stack)] = g]
    BY <1>4 DEF ReturnFromUpdate, Top
  <2>2. g \in Frame /\ g.pc = "step" /\ g.result = Top.result /\ SameWalk(g, Top)
    BY <1>1, PcChanged
  <2> HIDE DEF g
  <2>3. Top' = g /\ stack' # << >>
    BY <1>1, <2>1, <2>2, TopChanged DEF Top
  <2>4. ASSUME NEW k, ToCome(k) PROVE ToCome(k)'
    <3>1. /\ k \in Top.keys \cap Watched
          /\ \E e \in ours \cap attributessubscribe_list : k \in keys[e] /\ Reaches(Top, e)
      BY <1>1, <2>4 DEF ToCome
    <3>2. PICK e \in ours \cap attributessubscribe_list : k \in keys[e] /\ Reaches(Top, e)
      BY <3>1
    <3>3. Reaches(Top, e)'
      BY <2>2, <2>3, <3>2 DEF Reaches, SameWalk
    <3> QED BY <1>1, <1>2, <2>2, <2>3, <3>1, <3>2, <3>3 DEF ToCome, SameWalk
  <2>5. Ended => Ended'
    BY Zenon DEF Onward, Ended
  <2>6. \A k \in Behind' : k \in Behind /\ (ToCome(k) => ToCome(k)')
    BY <1>2, <2>4
  <2>7. g.kind = Top.kind /\ g.number = Top.number
    BY <2>2 DEF SameWalk
  <2> QED BY <1>1, <2>1, <2>2, <2>5, <2>6, <2>7, ChangeStep DEF Walks
<1> QED BY <1>3, <1>4

\* The set's walk begins in its entry: all that is behind is in its keys.
LEMMA OnUpdateOfSetStep ==
  ASSUME TypeOKSet, UpToDate, OnUpdateOfSet
  PROVE  UpToDate'
<1> DEFINE g == [Top EXCEPT !.pc = "return"]
           f == Walk(Top.keys, Top.number)
           s == [stack EXCEPT ![Len(stack)] = g]
<1>1. /\ stack \in Seq(Frame) /\ Len(stack) \in Nat \ {0} /\ stack # << >>
      /\ Top.kind = "update" /\ Top.pc = "call" /\ Top \in Frame /\ Top = stack[Len(stack)]
      /\ stack' = Append(s, f)
      /\ UNCHANGED <<cut, ignored, heard, device, sharedattribute_list, key, subscribe_id>>
  BY TopIs DEF TypeOKSet, TypeOK, RunnerType, OnUpdateOfSet, IsTop, Top, set, values, history
<1>2. g \in Frame /\ g.pc = "return" /\ g.result = Top.result /\ SameWalk(g, Top)
  BY <1>1, PcChanged
<1>3. /\ f \in Frame /\ f.kind = "set" /\ f.keys = Top.keys /\ f.number = Top.number
      /\ \A n \in sharedattribute_list : Reaches(f, n)
  <2>1. Top.keys \in SUBSET Key /\ Top.number \in Nat
    BY <1>1 DEF Frame
  <2>2. sharedattribute_list \subseteq Entry
    BY DEF TypeOKSet
  <2> QED BY <2>1, <2>2, WalkIs, WalkReaches
<1> HIDE DEF f, g
<1>4. /\ s \in Seq(Frame) /\ Len(s) = Len(stack) /\ s[Len(stack)] = g
      /\ \A i \in 1..Len(stack) : i # Len(stack) => s[i] = stack[i]
  BY <1>1, <1>2, TopChanged
<1> HIDE DEF s
<1>5. /\ Len(stack') = Len(s) + 1 /\ stack'[Len(s) + 1] = f /\ stack' \in Seq(Frame)
      /\ \A i \in 1..Len(s) : stack'[i] = s[i]
  BY <1>1, <1>3, <1>4, Pushed
<1>6. \A i \in 1..Len(stack) : /\ stack'[i].kind = stack[i].kind
                               /\ stack'[i].result = stack[i].result
                               /\ stack'[i].number = stack[i].number
  <2> SUFFICES ASSUME NEW i \in 1..Len(stack)
               PROVE  /\ stack'[i].kind = stack[i].kind
                      /\ stack'[i].result = stack[i].result
                      /\ stack'[i].number = stack[i].number
    OBVIOUS
  <2>1. CASE i = Len(stack)
    BY <1>1, <1>2, <1>4, <1>5, <2>1 DEF SameWalk
  <2>2. CASE i # Len(stack)
    BY <1>4, <1>5, <2>2
  <2> QED BY <2>1, <2>2
<1>7. /\ \A i \in 1..Len(stack) : i \in 1..Len(stack')
      /\ \A i \in 1..Len(stack') : i = Len(stack) + 1 \/ i \in 1..Len(stack)
      /\ \A i \in 1..Len(stack') - 1 : i = Len(stack) \/ i \in 1..Len(stack) - 1
      /\ Len(stack) = Len(stack') - 1 /\ Len(stack) \in 1..Len(stack) /\ stack' # << >>
  <2>1. Len(stack) \in Nat \ {0} /\ Len(stack') = Len(stack) + 1
    BY <1>1, <1>4, <1>5
  <2>2. /\ \A i \in 1..Len(stack) : i \in 1..Len(stack')
        /\ \A i \in 1..Len(stack') : i = Len(stack) + 1 \/ i \in 1..Len(stack)
        /\ \A i \in 1..Len(stack') - 1 : i = Len(stack) \/ i \in 1..Len(stack) - 1
        /\ Len(stack) = Len(stack') - 1 /\ Len(stack) \in 1..Len(stack)
    BY ONLY <2>1
  <2>3. stack' # << >>
    BY <1>5, <2>1
  <2> QED BY <2>2, <2>3
<1>8. Top' = f
  BY <1>4, <1>5 DEF Top
<1> SUFFICES ASSUME Clean' PROVE Alone' /\ Ahead' /\ \A k \in Behind' : ToCome(k)'
  BY DEF UpToDate
<1>9. Clean
  BY <1>1, <1>6, <1>7 DEF Clean, Ended
<1>10. Alone /\ Ahead /\ (\A k \in Behind : ToCome(k)) /\ Behind' = Behind
  BY <1>1, <1>9 DEF UpToDate, Behind
<1>11. Alone'
  <2> SUFFICES ASSUME NEW i \in 1..Len(stack') - 1, stack'[i].kind \in Walks
               PROVE  i = Len(stack') - 1 /\ stack'[i].pc = "return" /\ Top'.kind = "set"
    BY DEF Alone
  <2>1. CASE i = Len(stack)
    BY <1>2, <1>3, <1>4, <1>5, <1>7, <1>8, <2>1
  <2>2. CASE i \in 1..Len(stack) - 1
    <3>1. i \in 1..Len(stack)
      BY <1>1, <2>2
    <3>2. stack[i].kind \in Walks
      BY <1>6, <3>1
    <3> QED BY <1>1, <1>10, <2>2, <3>2 DEF Alone
  <2> QED BY <1>7, <2>1, <2>2
<1>12. Ahead'
  <2>1. \A k \in Key : heard[k] <= Top.number
    BY <1>1, <1>7, <1>10 DEF Ahead, Walks
  <2> SUFFICES ASSUME NEW i \in 1..Len(stack'), stack'[i].kind \in Walks, NEW k \in Key
               PROVE  heard'[k] <= stack'[i].number
    BY DEF Ahead
  <2>2. CASE i = Len(stack) + 1
    BY <1>1, <1>3, <1>4, <1>5, <2>1, <2>2
  <2>3. CASE i \in 1..Len(stack)
    BY <1>1, <1>6, <1>10, <2>3 DEF Ahead
  <2> QED BY <1>7, <2>2, <2>3
<1>13. ASSUME NEW k \in Behind' PROVE ToCome(k)'
  <2>1. k \in Top.keys \cap Watched
    BY <1>10 DEF ToCome
  <2>2. PICK n \in Subscribed : key[n] = k
    BY <2>1 DEF Watched
  <2>3. n \in sharedattribute_list
    BY DEF Subscribed
  <2>4. Reaches(Top, n)'
    BY <1>3, <1>8, <2>3 DEF Reaches
  <2>5. Watched' = Watched /\ Subscribed' = Subscribed
    BY <1>1 DEF Watched, Subscribed
  <2> QED BY <1>1, <1>3, <1>7, <1>8, <2>1, <2>2, <2>4, <2>5 DEF ToCome
<1> QED BY <1>11, <1>12, <1>13

LEMMA WalkSetStep ==
  ASSUME TypeOKSet, Frames, UpToDate, WalkSet
  PROVE  UpToDate'
<1>1. /\ stack \in Seq(Frame) /\ stack # << >> /\ Len(stack) \in Nat \ {0}
      /\ Top.kind = "set" /\ Top.pc = "step" /\ Top \in Frame /\ Top = stack[Len(stack)]
      /\ UNCHANGED <<heard, cut, ignored, sharedattribute_list, key, subscribe_id>>
  BY TopIs DEF TypeOKSet, TypeOK, RunnerType, WalkSet, IsTop, Top, set, history
<1>2. Ended' = Ended /\ Watched' = Watched /\ Subscribed' = Subscribed
  BY <1>1 DEF Ended, Watched, Subscribed
<1>3. Top.result = 0
  <2>1. Len(stack) \in 1..Len(stack)
    BY <1>1
  <2>2. Sane(Top, made.attributes, ours, Ended)
    BY <1>1, <2>1 DEF Frames, SaneAll
  <2> QED BY <1>1, <2>2 DEF Sane
<1>4. Ended => Ended'
  BY <1>2, Zenon
<1>5. CASE Top.next = End
  <2>1. LeaveWalk /\ UNCHANGED device
    BY <1>5 DEF WalkSet
  <2>2. Clean => Behind = {}
    BY <1>1, <1>5 DEF UpToDate, ToCome, Reaches
  <2>3. /\ Len(stack') = Len(stack) - 1
        /\ \A i \in 1..Len(stack) - 2 : stack'[i] = stack[i]
        /\ Len(stack) > 1 =>
             stack'[Len(stack) - 1] =
               IF stack[Len(stack) - 1].pc = "return"
               THEN [stack[Len(stack) - 1] EXCEPT !.result = Top.result]
               ELSE stack[Len(stack) - 1]
    BY <1>1, <2>1, LeaveWalkIs
  <2>4. ASSUME NEW i \in 1..Len(stack) - 1, stack'[i] # stack[i]
        PROVE  stack[i].pc = "return" /\ SameWalk(stack'[i], stack[i])
    <3>1. /\ i \in 1..Len(stack) - 2 \/ (i = Len(stack) - 1 /\ Len(stack) > 1)
          /\ i \in 1..Len(stack)
      BY <1>1
    <3>2. i = Len(stack) - 1 /\ Len(stack) > 1
      BY <2>3, <2>4, <3>1
    <3>3. stack[i].pc = "return" /\ stack'[i] = [stack[i] EXCEPT !.result = Top.result]
      BY <2>3, <2>4, <3>2
    <3>4. stack[i] \in Frame /\ Top.result \in 0..2
      <4>1. stack[i] \in Frame
        BY <1>1, <3>1
      <4>2. Top.result \in 0..2
        BY <1>1 DEF Frame
      <4> QED BY <4>1, <4>2
    <3> DEFINE f == stack[i]
    <3> HIDE DEF f
    <3>5. f \in Frame /\ stack'[i] = [f EXCEPT !.result = Top.result]
      BY <3>3, <3>4 DEF f
    <3>6. SameWalk(stack'[i], f)
      <4> DEFINE g == [f EXCEPT !.result = Top.result]
      <4>1. SameWalk(g, f)
        BY <3>4, <3>5, ResultChanged
      <4> HIDE DEF g
      <4>2. stack'[i] = g
        BY <3>5 DEF g
      <4> QED BY <4>1, <4>2
    <3> QED BY <3>3, <3>6 DEF f
  <2> QED BY <1>1, <1>3, <1>4, <2>1, <2>2, <2>3, <2>4, LeaveStep DEF Walks
<1>6. CASE Top.next # End
  <2> DEFINE n == Top.next
  <2>1. PICK f \in Frame : /\ stack' = [stack EXCEPT ![Len(stack)] = f]
                           /\ f.kind = "set"
                           /\ f.next = After(n, sharedattribute_list)
                           /\ f.keys = Top.keys /\ f.number = Top.number /\ f.result = Top.result
    BY <1>6, WalkSetIs
  <2>2. Top' = f /\ stack' # << >>
    BY <1>1, <2>1, TopChanged DEF Top
  <2>3. n \in Entry /\ n \in Nat /\ sharedattribute_list \in SUBSET Nat /\ key[n] \in Key
    <3>1. n \in Entry
      BY <1>1, <1>6 DEF Frame
    <3>2. Entry \subseteq Nat
      BY SubscriptionsAssumption DEF Entry
    <3> QED BY <3>1, <3>2 DEF TypeOKSet
  <2>4. device' = IF IsSet(n) THEN [device EXCEPT ![key[n]] = Top.number] ELSE device
    BY <1>6 DEF WalkSet
  <2>5. device \in [Key -> Nat] /\ heard \in [Key -> Nat] /\ Top.number \in Nat
    BY <1>1 DEF TypeOKSet, Frame
  <2>6. ASSUME Clean, Alone, Ahead, NEW k \in Behind'
        PROVE  k \in Behind /\ (ToCome(k) => ToCome(k)')
    <3>1. k \in Key /\ device'[k] < heard[k]
      BY <1>1, <2>6 DEF Behind
    <3>2. heard[k] <= Top.number
      <4>1. Len(stack) \in 1..Len(stack) /\ Top.kind \in Walks
        BY <1>1 DEF Walks
      <4> QED BY <1>1, <2>6, <3>1, <4>1 DEF Ahead
    <3>3. ~(IsSet(n) /\ k = key[n])
      BY <2>3, <2>4, <2>5, <3>1, <3>2
    <3>4. device'[k] = device[k]
      BY <2>3, <2>4, <2>5, <3>1, <3>3
    <3>5. k \in Behind
      BY <3>1, <3>4 DEF Behind
    <3>6. ASSUME ToCome(k) PROVE ToCome(k)'
      <4>1. /\ k \in Top.keys \cap Watched
            /\ \E m \in Subscribed : key[m] = k /\ Reaches(Top, m)
        BY <1>1, <3>6 DEF ToCome
      <4>2. PICK m \in Subscribed : key[m] = k /\ Reaches(Top, m)
        BY <4>1
      <4>3. m # n
        BY <3>3, <4>1, <4>2 DEF IsSet, Subscribed
      <4>4. n < m /\ m \in sharedattribute_list
        <5>1. m \in sharedattribute_list /\ n <= m
          BY <4>2 DEF Subscribed, Reaches
        <5>2. m \in Nat
          BY <2>3, <5>1
        <5> QED BY <2>3, <4>3, <5>1, <5>2
      <4>5. Reaches(f, m)
        BY <2>1, <2>3, <4>4, AfterIsNext DEF Reaches
      <4>6. Reaches(Top, m)'
        BY <2>2, <4>5 DEF Reaches
      <4> QED BY <1>1, <1>2, <2>1, <2>2, <4>1, <4>2, <4>6 DEF ToCome
    <3> QED BY <3>5, <3>6
  <2>7. Clean /\ Alone /\ Ahead => \A k \in Behind' : k \in Behind /\ (ToCome(k) => ToCome(k)')
    BY <2>6
  <2> QED BY <1>1, <1>3, <1>4, <2>1, <2>7, ChangeStep DEF Walks
<1> QED BY <1>5, <1>6

\* on_set returns.
LEMMA ReturnFromSetStep ==
  ASSUME TypeOKSet, Onward, UpToDate, ReturnFromSet
  PROVE  UpToDate'
<1>1. /\ stack \in Seq(Frame) /\ stack # << >> /\ Top.kind = "set" /\ Top \in Frame
      /\ UNCHANGED <<heard, device, sharedattribute_list, key, subscribe_id>>
  BY TopIs DEF TypeOKSet, TypeOK, RunnerType, ReturnFromSet, IsTop, set
<1>2. Watched' = Watched /\ Subscribed' = Subscribed /\ Behind' = Behind
  BY <1>1 DEF Watched, Subscribed, Behind
<1>3. CASE Top.result # 0
  <2>1. cut'
    BY <1>3 DEF ReturnFromSet
  <2>2. ~Clean'
    BY <2>1, Zenon DEF Clean, Ended
  <2> QED BY <2>2, Zenon DEF UpToDate
<1>4. CASE Top.result = 0
  <2> DEFINE g == [Top EXCEPT !.pc = "step"]
  <2>1. stack' = [stack EXCEPT ![Len(stack)] = g]
    BY <1>4 DEF ReturnFromSet, Top
  <2>2. g \in Frame /\ g.pc = "step" /\ g.result = Top.result /\ SameWalk(g, Top)
    BY <1>1, PcChanged
  <2> HIDE DEF g
  <2>3. Top' = g /\ stack' # << >>
    BY <1>1, <2>1, <2>2, TopChanged DEF Top
  <2>4. ASSUME NEW k, ToCome(k) PROVE ToCome(k)'
    BY <1>1, <1>2, <2>2, <2>3, <2>4 DEF ToCome, Reaches, SameWalk
  <2>5. Ended => Ended'
    BY Zenon DEF Onward, Ended
  <2>6. \A k \in Behind' : k \in Behind /\ (ToCome(k) => ToCome(k)')
    BY <1>2, <2>4
  <2>7. g.kind = Top.kind /\ g.number = Top.number
    BY <2>2 DEF SameWalk
  <2> QED BY <1>1, <2>1, <2>2, <2>5, <2>6, <2>7, ChangeStep DEF Walks
<1> QED BY <1>3, <1>4

\* A callback that will return 1 or 2, and what is called from it.
LEMMA CalledStep ==
  ASSUME TypeOKSet, TypeOKSet', UpToDate, UNCHANGED <<device, heard, cut, ignored>>,
         NEW r \in 1..2,
         \A i \in 1..Len(stack) : i \in 1..Len(stack') /\ stack'[i] = WillReturn(Runner, r)[i],
         \A i \in 1..Len(stack') : i \in 1..Len(stack) \/ stack'[i].kind \notin Walks
  PROVE  UpToDate'
<1> DEFINE w == WillReturn(Runner, r)
<1>1. stack \in Seq(Frame) /\ Len(stack) \in Nat
  BY DEF TypeOKSet, TypeOK, RunnerType
<1>2. CASE stack = << >>
  BY <1>2, AsideStep
<1>3. CASE stack # << >>
  <2>1. /\ Len(stack) \in 1..Len(stack)
        /\ w[Len(stack)].kind = Top.kind /\ w[Len(stack)].result # 0
        /\ \A i \in 1..Len(stack) - 1 : w[i] = stack[i]
    BY <1>1, <1>3, WillReturnEnds
  <2> HIDE DEF w
  <2>2. CASE Top.kind \in Walks
    <3>1. ~Clean'
      BY <2>1, <2>2 DEF Clean, w
    <3> QED BY <3>1 DEF UpToDate
  <2>3. CASE Top.kind \notin Walks
    <3>1. \A i \in 1..Len(stack) : i = Len(stack) \/ i \in 1..Len(stack) - 1
      BY <1>1
    <3>2. \A i \in 1..Len(stack) : stack[i].kind \in Walks =>
            i \in 1..Len(stack') /\ stack'[i] = stack[i]
      BY <1>3, <2>1, <2>3, <3>1 DEF w, Top
    <3>3. \A i \in 1..Len(stack') : stack'[i].kind \in Walks =>
            i \in 1..Len(stack) /\ stack[i].kind \in Walks
      BY <2>1, <2>3, <3>1 DEF w
    <3> QED BY <2>3, <3>2, <3>3, AsideStep
  <2> QED BY <2>2, <2>3
<1> QED BY <1>2, <1>3

\* The callbacks of the application: unregister, unsubscribe, disconnect, destroy.
LEMMA CallbackStep ==
  ASSUME TypeOKSet, TypeOKSet', UpToDate, UNCHANGED <<device, heard, cut, ignored>>,
         NEW r \in 1..2, NEW w, w = WillReturn(Runner, r),
         NEW f, NEW d, f.kind \notin Walks, d.kind \notin Walks, f \in Frame, d \in Frame,
         stack' \in {w, Append(w, f), Append(w, d), Append(Append(w, d), f)}
  PROVE  UpToDate'
<1>1. stack \in Seq(Frame) /\ Len(stack) \in Nat /\ w \in Seq(Frame) /\ Len(w) = Len(stack)
  BY WillReturnIs DEF TypeOKSet, TypeOK, RunnerType
<1>2. ASSUME NEW s \in Seq(Frame), NEW g \in {f, d},
             \A i \in 1..Len(stack) : i \in 1..Len(s) /\ s[i] = w[i],
             \A i \in 1..Len(s) : i \in 1..Len(stack) \/ s[i].kind \notin Walks
      PROVE  /\ Append(s, g) \in Seq(Frame)
             /\ \A i \in 1..Len(stack) : i \in 1..Len(Append(s, g)) /\ Append(s, g)[i] = w[i]
             /\ \A i \in 1..Len(Append(s, g)) :
                  i \in 1..Len(stack) \/ Append(s, g)[i].kind \notin Walks
  <2>1. /\ g \in Frame /\ g.kind \notin Walks /\ Len(s) \in Nat
        /\ Append(s, g) \in Seq(Frame) /\ Len(Append(s, g)) = Len(s) + 1
        /\ Append(s, g)[Len(s) + 1] = g
        /\ \A i \in 1..Len(s) : Append(s, g)[i] = s[i]
    BY <1>2, Pushed
  <2>2. \A i \in 1..Len(s) : i \in 1..Len(Append(s, g))
    BY <2>1
  <2>3. \A i \in 1..Len(Append(s, g)) : i = Len(s) + 1 \/ i \in 1..Len(s)
    BY <2>1
  <2> QED BY <1>2, <2>1, <2>2, <2>3
<1>3. \A i \in 1..Len(stack) : i \in 1..Len(w) /\ w[i] = w[i]
  BY <1>1
<1>4. \A i \in 1..Len(w) : i \in 1..Len(stack) \/ w[i].kind \notin Walks
  BY <1>1
<1>5. /\ \A i \in 1..Len(stack) : i \in 1..Len(stack') /\ stack'[i] = w[i]
      /\ \A i \in 1..Len(stack') : i \in 1..Len(stack) \/ stack'[i].kind \notin Walks
  <2>1. CASE stack' = w
    BY <1>3, <1>4, <2>1
  <2>2. CASE stack' = Append(w, f)
    BY <1>1, <1>2, <1>3, <1>4, <2>2
  <2>3. CASE stack' = Append(w, d)
    BY <1>1, <1>2, <1>3, <1>4, <2>3
  <2>4. CASE stack' = Append(Append(w, d), f)
    <3> DEFINE s == Append(w, d)
    <3>1. /\ s \in Seq(Frame)
          /\ \A i \in 1..Len(stack) : i \in 1..Len(s) /\ s[i] = w[i]
          /\ \A i \in 1..Len(s) : i \in 1..Len(stack) \/ s[i].kind \notin Walks
      BY <1>1, <1>2, <1>3, <1>4
    <3> HIDE DEF s
    <3>2. /\ \A i \in 1..Len(stack) : i \in 1..Len(Append(s, f)) /\ Append(s, f)[i] = w[i]
          /\ \A i \in 1..Len(Append(s, f)) :
               i \in 1..Len(stack) \/ Append(s, f)[i].kind \notin Walks
      BY <1>2, <3>1
    <3> QED BY <2>4, <3>2 DEF s
  <2> QED BY <2>1, <2>2, <2>3, <2>4
<1> QED BY <1>5, CalledStep

\* The stack stays, or changes aside of the walks: none is at the top.
LEMMA StackAside ==
  ASSUME TypeOKSet, TypeOKSet', UpToDate, UNCHANGED <<device, heard, cut, ignored>>,
         stack # << >> => Top.kind \notin Walks,
         \/ UNCHANGED stack
         \/ stack # << >> /\ stack' = Below
         \/ stack' = Append(stack, Call("event", "call"))
         \/ stack # << >> /\ stack' = [stack EXCEPT ![Len(stack)].kind = "drain"]
  PROVE  UpToDate'
<1>1. stack \in Seq(Frame) /\ Len(stack) \in Nat
  BY DEF TypeOKSet, TypeOK, RunnerType
<1>2. CASE UNCHANGED stack
  BY <1>2, AsideStep
<1>3. CASE stack # << >> /\ stack' = Below
  <2>1. Len(stack) \in Nat \ {0} /\ Len(stack') = Len(stack) - 1
        /\ (\A i \in 1..Len(stack) - 1 : stack'[i] = stack[i])
        /\ Top = stack[Len(stack)]
    BY <1>1, <1>3, Popped DEF Below, Top
  <2>2. /\ \A i \in 1..Len(stack) : i = Len(stack) \/ (i \in 1..Len(stack') /\ i \in 1..Len(stack) - 1)
        /\ \A i \in 1..Len(stack') : i \in 1..Len(stack) /\ i \in 1..Len(stack) - 1
    BY <2>1
  <2>3. \A i \in 1..Len(stack) : stack[i].kind \in Walks =>
          i \in 1..Len(stack') /\ stack'[i] = stack[i]
    BY <1>3, <2>1, <2>2
  <2>4. \A i \in 1..Len(stack') : stack'[i].kind \in Walks =>
          i \in 1..Len(stack) /\ stack[i].kind \in Walks
    BY <2>1, <2>2
  <2> QED BY <2>3, <2>4, AsideStep
<1>4. CASE stack' = Append(stack, Call("event", "call"))
  <2> DEFINE f == Call("event", "call")
  <2>1. f \in Frame /\ f.kind \notin Walks
    BY CallIsFrame DEF Call, Walks
  <2> HIDE DEF f
  <2>2. Len(stack') = Len(stack) + 1 /\ stack'[Len(stack) + 1] = f
        /\ \A i \in 1..Len(stack) : stack'[i] = stack[i]
    BY <1>1, <1>4, <2>1, Pushed DEF f
  <2>3. /\ \A i \in 1..Len(stack) : i \in 1..Len(stack')
        /\ \A i \in 1..Len(stack') : i = Len(stack) + 1 \/ i \in 1..Len(stack)
    BY <1>1, <2>2
  <2>4. \A i \in 1..Len(stack) : stack[i].kind \in Walks =>
          i \in 1..Len(stack') /\ stack'[i] = stack[i]
    BY <2>2, <2>3
  <2>5. \A i \in 1..Len(stack') : stack'[i].kind \in Walks =>
          i \in 1..Len(stack) /\ stack[i].kind \in Walks
    BY <2>1, <2>2, <2>3
  <2> QED BY <2>4, <2>5, AsideStep
<1>5. CASE stack # << >> /\ stack' = [stack EXCEPT ![Len(stack)].kind = "drain"]
  <2> DEFINE g == [Top EXCEPT !.kind = "drain"]
  <2>1. Top \in Frame /\ stack' = [stack EXCEPT ![Len(stack)] = g] /\ Top = stack[Len(stack)]
    BY <1>1, <1>5, TopIs DEF Top
  <2>2. g \in Frame /\ g.kind \notin Walks
    <3>1. g \in Frame
      BY <2>1, FrameChanged, Zenon
    <3>2. g.kind = "drain"
      BY <2>1 DEF Frame
    <3> QED BY <3>1, <3>2 DEF Walks
  <2> HIDE DEF g
  <2>3. Len(stack') = Len(stack) /\ stack'[Len(stack)] = g
        /\ \A i \in 1..Len(stack) : i # Len(stack) => stack'[i] = stack[i]
    BY <1>1, <1>5, <2>1, <2>2, TopChanged
  <2>4. \A i \in 1..Len(stack) : stack[i].kind \in Walks =>
          i \in 1..Len(stack') /\ stack'[i] = stack[i]
    BY <1>5, <2>1, <2>3, Zenon
  <2>5. \A i \in 1..Len(stack') : stack'[i].kind \in Walks =>
          i \in 1..Len(stack) /\ stack[i].kind \in Walks
    BY <2>2, <2>3
  <2> QED BY <2>4, <2>5, AsideStep
<1> QED BY <1>2, <1>3, <1>4, <1>5

\* A step that leaves the stack and the set, and makes at most entries.
LEMMA BelowStep ==
  ASSUME TypeOKSet, ListedInv, UpToDate, UNCHANGED <<set, values>>, PlainBelow
  PROVE  UpToDate'
<1>1. UNCHANGED <<device, heard, cut, ignored, sharedattribute_list, key, subscribe_id, ours>>
      /\ UNCHANGED stack
  BY DEF PlainBelow, MqttConnected, MqttDisconnected, MqttUpdate, MqttData, tbcmh_connect,
         tbcmh_attributes_subscribe, set, values, history
<1>2. ASSUME NEW t, NEW K, tbcmh_attributes_subscribe(t, K)
      PROVE  \A e \in ours \cap attributessubscribe_list :
               e \in attributessubscribe_list' /\ keys'[e] = keys[e]
  <2>1. \A e \in ours : e \in Nat /\ e <= made.attributes /\ e \in Entry
    <3>1. ours \subseteq 1..made.attributes /\ ours \subseteq Entry
      BY DEF ListedInv, Made, TypeOKSet
    <3>2. made.attributes \in Nat
      BY SubscriptionsAssumption DEF TypeOKSet, TypeOK, ListsType
    <3> QED BY <3>1, <3>2
  <2>2. made.attributes \in Nat /\ keys \in [Entry -> SUBSET Key]
    BY SubscriptionsAssumption DEF TypeOKSet, TypeOK, ListsType
  <2>3. /\ attributessubscribe_list' = attributessubscribe_list \cup {made.attributes + 1}
        /\ keys' = [keys EXCEPT ![made.attributes + 1] = K]
    BY <1>2 DEF tbcmh_attributes_subscribe
  <2>4. \A e \in ours : e # made.attributes + 1
    BY <2>1, <2>2
  <2> QED BY <2>1, <2>2, <2>3, <2>4
<1>3. ASSUME \/ MqttConnected \/ MqttDisconnected \/ (\E K : MqttUpdate(K)) \/ tbcmh_connect
      PROVE  UNCHANGED <<attributessubscribe_list, keys>>
  BY <1>3 DEF MqttConnected, MqttDisconnected, MqttUpdate, MqttData, tbcmh_connect, lists
<1>4. \A e \in ours \cap attributessubscribe_list :
        e \in ours' \cap attributessubscribe_list' /\ keys'[e] = keys[e]
  <2>1. CASE \E t, K : tbcmh_attributes_subscribe(t, K)
    BY <1>1, <1>2, <2>1
  <2>2. CASE ~ \E t, K : tbcmh_attributes_subscribe(t, K)
    BY <1>1, <1>3, <2>2 DEF PlainBelow
  <2> QED BY <2>1, <2>2
<1> QED BY <1>1, <1>4, ElsewhereStep

LEMMA PlainStep ==
  ASSUME TypeOKSet, TypeOKSet', ListedInv, UpToDate, Plain
  PROVE  UpToDate'
<1>1. CASE \/ \E k \in Key : tbce_sharedattributes_register(k)
           \/ tbce_sharedattributes_destroy
           \/ tbce_sharedattributes_subscribe
           \/ tbce_sharedattributes_unsubscribe
  <2>1. /\ UNCHANGED <<stack, device, heard, cut, ignored>>
        /\ stack # << >> => Top.kind \notin Walks
    BY <1>1 DEF tbce_sharedattributes_register, tbce_sharedattributes_destroy, Walks,
         tbce_sharedattributes_subscribe, tbce_sharedattributes_unsubscribe, vars, values, history
  <2> QED BY <2>1, StackAside
<1>2. CASE \/ tbce_sharedattributes_initialized \/ (\E K : MqttResponse(K)) \/ UNCHANGED allVars
  <2>1. /\ UNCHANGED <<stack, device, heard, cut, ignored, sharedattribute_list, key, subscribe_id>>
        /\ UNCHANGED <<ours, attributessubscribe_list, keys>>
    BY <1>2 DEF tbce_sharedattributes_initialized, MqttResponse, allVars, vars, values, history,
         lists, set
  <2> QED BY <2>1, ElsewhereStep
<1>3. CASE UNCHANGED <<set, values>> /\ PlainBelow
  BY <1>3, BelowStep
<1>4. CASE UNCHANGED <<set, values>> /\ PlainCall
  <2>1. UNCHANGED <<device, heard, cut, ignored>>
    BY <1>4 DEF PlainCall, FinishDisconnect, FinishDestroy, ReturnFromEvent, OnConnected,
         OnDisconnected, values, history
  <2>2. CASE FinishDisconnect \/ FinishDestroy \/ ReturnFromEvent
    <3>1. stack # << >> /\ stack' = Below /\ Top.kind \notin Walks
      BY <2>2 DEF FinishDisconnect, FinishDestroy, ReturnFromEvent, IsTop, Return, Walks
    <3> QED BY <2>1, <3>1, StackAside
  <2>3. CASE OnConnected \/ OnDisconnected
    <3>1. stack' = Append(stack, Call("event", "call")) /\ (stack # << >> => Top.kind \notin Walks)
      BY <2>3 DEF OnConnected, OnDisconnected, Receive, Push, Walks
    <3> QED BY <2>1, <3>1, StackAside
  <2> QED BY <1>4, <2>2, <2>3 DEF PlainCall
<1> QED BY <1>1, <1>2, <1>3, <1>4, Zenon DEF Plain, Quiet

LEMMA UpToDateStep ==
  ASSUME TypeOKSet, TypeOKSet', ListedInv, Bounds, InOrder, Frames, UpToDate, [NextSet]_allVars
  PROVE  UpToDate'
<1>0. Onward
  BY OnwardStep
<1>1. CASE Plain
  BY <1>1, PlainStep
<1>2. ASSUME NEW k \in Key, tbce_sharedattributes_unregister(k) PROVE UpToDate'
  <2>1. stack' = WillReturn(Runner, 1) /\ UNCHANGED <<device, heard, cut, ignored>>
    BY <1>2 DEF tbce_sharedattributes_unregister, values, history
  <2> DEFINE f == Call("flush", "step")
  <2>2. f \in Frame /\ f.kind \notin Walks
    BY CallIsFrame DEF Call, Walks
  <2> HIDE DEF f
  <2> QED BY <2>1, <2>2, CallbackStep
<1>3. CASE UNCHANGED <<set, values>> /\ tbcm_disconnect
  <2>1. /\ UNCHANGED <<device, heard, cut, ignored>>
        /\ stack # << >> /\ stack' = [stack EXCEPT ![Len(stack)].kind = "drain"]
        /\ Top.kind \notin Walks
    BY <1>3 DEF tbcm_disconnect, IsTop, Return, values, history, Walks
  <2> QED BY <2>1, StackAside
<1>4. ASSUME UNCHANGED <<set, values>>, NEW t \in Tasks, NEW id \in Entry \ ours,
             tbcmh_attributes_unsubscribe(t, id)
      PROVE  UpToDate'
  <2>1. /\ UNCHANGED <<device, heard, cut, ignored, sharedattribute_list, key, subscribe_id,
                       ours, keys>>
        /\ stack' = WillReturn(t, 1)
        /\ attributessubscribe_list' = attributessubscribe_list \ {id}
    BY <1>4 DEF tbcmh_attributes_unsubscribe, values, set
  <2>2. CASE t = Runner
    <3> DEFINE f == Call("flush", "step")
    <3>1. f \in Frame /\ f.kind \notin Walks
      BY CallIsFrame DEF Call, Walks
    <3> HIDE DEF f
    <3> QED BY <2>1, <2>2, <3>1, CallbackStep
  <2>3. CASE t # Runner
    <3>1. UNCHANGED stack
      BY <2>1, <2>3 DEF WillReturn, InCallback
    <3>2. \A e \in ours \cap attributessubscribe_list :
            e \in ours' \cap attributessubscribe_list' /\ keys'[e] = keys[e]
      BY <2>1
    <3> QED BY <2>1, <3>1, <3>2, ElsewhereStep
  <2> QED BY <2>2, <2>3
<1>5. ASSUME UNCHANGED <<set, values>>, tbcmh_disconnect \/ tbcmh_destroy PROVE UpToDate'
  <2> DEFINE w == WillReturn(Runner, 2)
             f == Call("flush", "step")
             d == Call("destroy", "step")
  <2>1. /\ UNCHANGED <<device, heard, cut, ignored>>
        /\ stack' \in {w, Append(w, f), Append(w, d), Append(Append(w, d), f)}
    BY <1>5 DEF tbcmh_disconnect, tbcmh_destroy, values, history
  <2>2. f \in Frame /\ d \in Frame /\ f.kind \notin Walks /\ d.kind \notin Walks
    BY CallIsFrame DEF Call, Walks
  <2> HIDE DEF f, d
  <2> QED BY <2>1, <2>2, CallbackStep
<1>6. CASE UNCHANGED <<set, values>> /\ WalkOn
  BY <1>6, WalkOnStep
<1>7. CASE SubscriptionsWalk
  <2>1. UNCHANGED <<set, device>>
    BY <1>7 DEF SubscriptionsWalk
  <2>2. CASE OnUpdate /\ Hear(Head(queue).keys, Head(queue).number) /\ UNCHANGED cut
    BY <2>1, <2>2, OnUpdateStep
  <2>3. CASE /\ ReturnFromUpdate
             /\ Top.pc = "call" => Top.id \notin ours
             /\ cut' = (cut \/ EndsWalk(Top.id, Top.result))
             /\ UNCHANGED heard
    BY <1>0, <2>1, <2>3, ReturnFromUpdateStep
  <2> QED BY <1>7, <2>2, <2>3, Zenon DEF SubscriptionsWalk
<1>8. CASE OnUpdateOfSet
  BY <1>8, OnUpdateOfSetStep
<1>9. CASE OnInitialized
  BY <1>9, OnInitializedStep
<1>10. CASE WalkSet
  BY <1>10, WalkSetStep
<1>11. CASE ReturnFromSet
  BY <1>0, <1>11, ReturnFromSetStep
<1> QED BY <1>1, <1>2, <1>3, <1>4, <1>5, <1>6, <1>7, <1>8, <1>9, <1>10, <1>11, StepsAre, Zenon

\* Between two calls of tbcmh_run the device has, of each subscribed attribute,
\* the value of the last message handled: unless a callback cut a walk short or
\* its result was ignored.
THEOREM DeviceStaysUpToDate == SpecSet => []DeviceIsUpToDate
<1> DEFINE Inv == TypeOKSet /\ ListedInv /\ Bounds /\ InOrder /\ Frames /\ UpToDate
<1>1. InitSet => Inv
  <2> SUFFICES ASSUME InitSet PROVE Inv
    OBVIOUS
  <2>1. TypeOKSet
    BY InitSetType
  <2>2. /\ stack = << >> /\ queue = << >> /\ sharedattribute_list = {} /\ ours = {}
        /\ attributessubscribe_list = {} /\ made.attributes = 0 /\ client = "NULL"
        /\ subscribe_id = [n \in Entry |-> NotSubscribed]
        /\ device = [k \in Key |-> 0] /\ heard = [k \in Key |-> 0] /\ sent = 0
    BY DEF InitSet, Init
  <2>3. Len(stack) = 0 /\ Len(queue) = 0
    BY <2>2
  <2>4. ListedInv
    BY <2>2 DEF ListedInv, Made, Subscribed
  <2>5. Bounds
    BY <2>2 DEF Bounds
  <2>6. InOrder
    BY <2>2, <2>3 DEF InOrder
  <2>7. Frames
    BY <2>3 DEF Frames, SaneAll
  <2>8. UpToDate
    BY <2>2, <2>3 DEF UpToDate, Alone, Ahead, Behind
  <2> QED BY <2>1, <2>4, <2>5, <2>6, <2>7, <2>8
<1>2. Inv /\ [NextSet]_allVars => Inv'
  <2> SUFFICES ASSUME Inv, [NextSet]_allVars PROVE Inv'
    OBVIOUS
  <2>1. TypeOKSet'
    BY SetTypes
  <2> QED BY <2>1, ListedStep, BoundsStep, OrderStep, FramesStep, UpToDateStep
<1>3. Inv => DeviceIsUpToDate
  <2> SUFFICES ASSUME Inv, stack = << >>, ~cut, ~ignored, NEW k \in Watched
               PROVE  device[k] >= heard[k]
    BY DEF DeviceIsUpToDate
  <2>1. Clean
    <3>1. Len(stack) = 0
      OBVIOUS
    <3> QED BY <3>1 DEF Clean, Ended
  <2>2. k \notin Behind
    BY <2>1 DEF UpToDate, ToCome
  <2>3. k \in Key /\ device[k] \in Nat /\ heard[k] \in Nat
    BY DEF TypeOKSet, Watched, Subscribed
  <2> QED BY <2>2, <2>3 DEF Behind
<1> QED BY <1>1, <1>2, <1>3, PTL DEF SpecSet
=============================================================================
