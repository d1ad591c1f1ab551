# A model of the ThingsBoard MQTT client for ESP32

TLA+ specifications of `src/components/tbcmh`, the ThingsBoard MQTT client library
for ESP-IDF, with TLC models and TLAPS proofs. Paths below are relative to that
directory's `src/`, unless they start with `include/` or `examples/`.

## The system

The library is layered: esp-mqtt (external) below the *wrapper* (`wapper/`), the
wrapper below the *helper* (`helper/`), optional *extensions* on top.

| Component | State | Operations | Module |
|---|---|---|---|
| Payload buffer, `wapper/tbc_mqtt_payload_buffer.c` | topic, payload, lengths of the message in reassembly | process a piece, clear | `PayloadBuffer` |
| MQTT wrapper, `wapper/tbc_mqtt_wapper.c` | `state`, `mqtt_handle`, `respone_timer`, `on_event` | init, connect, disconnect, destroy; events of esp-mqtt; periodic timer | `TbcmConnection` |
| Request/response core, `helper/tbc_mqtt_helper.c` | `_xQueue`, `_lock`, `next_request_id`, `last_check_timestamp` | `tbcmh_run`, `tbcmh_has_events`, `tbcmh_connect`, `tbcmh_disconnect`, `tbcmh_destroy`, dispatch of events | `TbcmhSession`, `Subscriptions`, `TbcmConnection` |
| Attributes request, client-side RPC, provisioning, `helper/attributes_request.c`, `client_rpc.c`, `provision_request.c` | one list of pending requests each | request, answer, timeout, disconnection | `TbcmhSession` |
| Attributes subscription, `helper/attributes_subscribe.c` | list of subscriptions and their keys | subscribe, unsubscribe, update | `Subscriptions` |
| Server-side RPC, `helper/server_rpc.c` | list of methods | subscribe, unsubscribe, request | `Subscriptions` |
| Firmware update, `helper/ota_update.c`, `ota_fwupdate.c` | `otaupdate_list` with the state of a download; the static `_fwupdate`; flash partitions | negotiate, request and write chunks, verify, end, abort, time out, subscribe, unsubscribe | `OtaUpdate` |
| Shared attributes, `extension/tbc_extension_sharedattributes.c` | list of attributes with their `subscribe_id` | register, subscribe in batches, initialise, set, unsubscribe, destroy | `SharedAttributes` |
| Client attributes and time series, `extension/tbc_extension_clientattributes.c`, `tbc_extension_timeseriesdata.c` | lists of registered keys | register, update, upload, initialise | `ClientAttributes` |
| Telemetry, attributes update, claiming | none | publish once under the lock | `ClientAttributes` |
| Transport configuration, `transport/`; example of provisioning, `examples/provision/px00_device_provisioning` | credentials; the two clients of the example | copy and check a configuration; provision, save, connect again | `Provisioning` |

Three kinds of tasks meet here. The **MQTT task** of esp-mqtt and the **timer task**
put events into `_xQueue`, and wait for room when it is full. **Application tasks** call
request functions, which hold `client->_lock`. One application task, the *Runner*, calls
`tbcmh_run`, which takes up to ten events out of the queue and runs their handlers. The
handlers of answers and timeouts do not take the lock: their `xSemaphoreTakeRecursive`
is commented out. Callbacks run in the Runner and may call functions of the library
again, even `tbcmh_disconnect`, which calls `tbcmh_run` in turn.

What is hard here: the Runner and the other tasks share the lists; the queue makes
every event late, so a handler acts on a connection that has changed since; the
queue can overflow; answers are lost, doubled or late; a timer races with them; a
message is cut by a lost connection; memory runs out at any malloc; a callback changes
the list that is being walked; starting and stopping esp-mqtt races with its first and
last events; an update may be interrupted at each chunk, and each failure must leave the
writer and the boot partition consistent. The file `PROJECT.json` lists these hazards at
their lines, with the properties that catch them.

## Modules

`SharedAttributes` extends `Subscriptions`, and `Provisioning` extends `TbcmConnection`.
The other modules stand alone; `TbcmhSession` is shown to implement `RequestPromise`.
Each `MC...` module gives constants to a module for TLC. The operators called "Mutant"
are plausible mistakes in the code; a property is there to fail with them.

### PayloadBuffer: reassembly of messages

`Process` is `tbcm_payload_buffer_pocess` as one action with its four ways out (reject,
deliver at once, deliver from the buffer, wait). The environment hands over a message
in pieces, may lose the connection inside one, and every malloc may fail. The bytes of
the n-th message are the number n, so mixing two messages shows; memory from malloc
that was never written is `Garbage`. The wrapper's `MQTT_EVENT_DATA` and the clearing
when it is destroyed are the other actions.

Properties: only whole messages are delivered (`NoMixedDelivery`), in order and once
(`DeliveredInOrderOnce`), and none that arrived whole is lost
(`WholeMessageIsDelivered`).

### TbcmhSession: requests and answers

The state is the wrapper's connection, the broker's subscriptions, the event queue,
the three lists with ids and ages, and where each task is:

- A request function takes two or three steps: `Subscribe` (lock, refuse when not
  connected, subscribe the response topic if the list is empty), `Publish` (draw an id,
  publish, may fail), `Insert` (create, append, unlock, may fail). The attributes, RPC
  and provisioning functions are the same code; the names of the code are kept as
  actions.
- The Runner takes events out of the queue. `*_on_data` removes the request and
  unsubscribes when the list becomes empty, and `CallResponse` calls the application.
  A disconnection or a check for timeouts sweeps the lists one by one
  (`*_on_check_timeout`, `CallTimeout`, `FinishList`). `FinishList` includes the memset
  at the end of every `*_on_disconnected`.
- `tbcmh_disconnect` handles the queue until it is empty, disconnects the wrapper,
  handles the queue again and sweeps.
- The environment changes the connection, answers, fires the timer and lets time pass.

`RequestPromise` is what a caller is promised: a request is refused, or accepted and
then answered or expired, once, and not never. `TbcmhSession` implements it under the
refinement mapping `promise`.

Properties: a request gets at most one callback, and only if it was accepted
(`AtMostOneCallback`); it is not dropped (`NoLostRequest`), or only where the code wipes
a list (`DroppedOnlyByDisconnection`); a pending request is subscribed to its answer
(`SubscribedUnlessStale`), an answer finds it (`AnswerIsDelivered`,
`AnswerReachesAccepted`), and no topic stays subscribed for nobody
(`SubscriptionIsUsed`).

Abstractions and assumptions:

- A list is a set; its order is the order of the ids, which are drawn under the same
  lock. One list operation is atomic, including the unsubscription that follows it, so
  data races on the list cells are not modelled.
- Callbacks make requests only if `CallbackRequests`; here they never connect or
  disconnect. Only the Runner connects and disconnects, and it connects only when
  esp-mqtt is stopped. Starting and stopping esp-mqtt succeeds: when it does not is in
  `TbcmConnection`.
- Subscribing succeeds when connected. Sessions are clean: a change of the connection
  drops all subscriptions.
- The server answers a request up to `Copies` times, while its topic is subscribed. An
  answer that is not JSON is left out, except for provisioning, where the code calls
  `on_timeout` for it.
- Time is in ticks. Ages stop at the values the code compares them with. Once
  started, the timer may fire at any moment.
- One-way RPCs, which keep no request, are left out.

### Subscriptions: lists of callbacks, and callbacks inside callbacks

`stack` is the call stack of the Runner. `OnUpdate` begins the walk of
`_tbcmh_attributessubscribe_on_data`, `WalkOn` takes the entry that was saved as next
and saves the one after it, and between the two the application runs in the callback
without the lock. It may subscribe, unsubscribe, and call `tbcmh_disconnect`, which
pushes `flush` and, after `tbcm_disconnect`, `drain`: both take events out of the queue,
whose handlers push more. `fault` is set when the Runner reads an entry or a client that
was freed. Numbers of entries are not used again, so a freed entry is one that was made
and is not listed.

Properties: topics follow the lists (`TopicsFollowLists`) and an entry gets subscribed in
the end (`GetsSubscribed`); nothing freed is used, except after a result that the code
ignores or an unsubscription by another task (`SafeIfResultsCount`).

Callbacks return what the header asks for: 1 after an unsubscription, 2 after a
disconnection. What they do is bounded by `CallbackMay`. That a key of a subscription may
be left out for lack of memory is not modelled.

### SharedAttributes: a set of attributes on top of Subscriptions

The set keeps, for each attribute, the number of the entry it was subscribed with;
`tbce_sharedattributes_subscribe` makes one entry for each batch of
`MaxPerSubscribe` keys. Its `on_update` is a walk of its own (frames of the kind `set`),
which may be nested in itself by a `tbcmh_disconnect` inside `on_set`. Messages are
numbered and the number is the value. A set is used with one client, by the Runner.

Properties: `subscribe_id` never dangles (`AttributesAreListed`), and the device has the
last value that was handled (`DeviceIsUpToDate`).

### ClientAttributes: what a device publishes

`outbox` is what esp-mqtt keeps until the server has acknowledged it; a connection that
is lost before that sends it again. The functions that publish return a message id once
the message is in the outbox, `tbcm_disconnect` throws the outbox away.
`tbce_clientattributes_initialize` asks for the values that the server has kept, in
batches, and `OnResponse` sets them.

Properties: a message that was accepted arrives or is thrown away by `tbcmh_disconnect`
(`AcceptedArrives`); when nothing is under way, device and server agree
(`SettledAgrees`), with the exceptions named below.

### TbcmConnection and Provisioning: the life of a client

`TbcmConnection` has `tbcmh_init`, `tbcmh_connect`, `tbcmh_disconnect` and
`tbcmh_destroy` with the wrapper functions they call, in the steps that another task can
come between: `pc` is where the application is inside them. The MQTT task copies an
event into `_xQueue` in two steps and waits while it is full; `esp_mqtt_client_stop`
waits for the MQTT task to finish that. The timer task does the same. Using what is not
there stops the program (`crash`).

`Provisioning` puts `mqtt_app_start` of the example on top of it: a front client that
provisions the device, the credentials in memory, the switch to a normal client, and all
failures of creating, connecting and saving. Credentials carry the number of the answer
that gave them, `login` is what esp-mqtt gets.

Properties: what each task may find missing (`HandlerIsMissing`, `NoUseAfterDestroy`,
`UsesFreedOnlyDiscarded`); the normal client logs in with the credentials of the last
answer (`ConnectsAsProvisioned`); one esp-mqtt client at a time (`OneConnection`); at the
end nothing is left (`NothingIsLeft`), and the end comes (`ApplicationEnds`).

A client is connected once, as in the example. A failing malloc fails the function that
calls it. What a callback does is a flag of the example, never a call of the library.

### OtaUpdate: firmware updates

Handlers run only in the Runner and are atomic. `Negotiate` is
`__otaupdate_on_sharedattributes`; it runs once per attribute subscription, since every
connection adds one. `OnChunkData` is `_tbcmh_otaupdate_on_chunk_data` with everything
it calls: the writer with its header check, `esp_ota_begin` and `esp_ota_write`, the
checksum, `esp_ota_end` and the boot partition, the request of the next chunk, and in
each failing case abort, reset and `on_updated(false)`. `Restart` is a crash, or the
restart the application makes after `on_updated(true)`.

Properties: the boot partition holds what was announced (`BootIsAnnounced`), a download
consists of its own chunks in order (`ChunksAreOurs`), it is subscribed to them
(`TopicWhileDownloading`) and ends (`DownloadEnds`).

Abstractions and assumptions: lengths are in chunks, and a checksum is the sequence it
was computed of. All entries have the same title, so only the first one downloads. The
server sends the chunk of the firmware that is assigned at that moment, and may answer
twice or never. `esp_ota_end` refuses anything that is not one whole image; it may also
fail for other reasons, like every flash operation. A chunk that is not the first of an
image may or may not pass the check of its header. A partition that was opened counts
as erased, although the code erases with the first write. The boot loader falls back to
the other partition when it finds no image. `DrainsQueue` says whether events are still
handled between `on_updated(true)` and the restart, as the update example does.

## Runs

| Run | Instance | Result |
|---|---|---|
| `payload_buffer` | 3 messages of 0 to 4 bytes, 2 topics, limit of 3 bytes | all properties hold |
| `session_single` | 2 attribute requests, 1 task, 3 connection changes, queue of 2 | all properties hold |
| `session_shared` | an RPC and a provision request, 2 tasks, requests in callbacks, 2 changes | holds |
| `session_live` | an RPC and a provision request, 1 task, 2 changes, queue of 1, fairness | `RequestPromise` is implemented |
| `subscriptions` | 2 attribute subscriptions of one key or of all, 1 RPC method, 2 tasks, 2 connections, 2 messages, queue of 2, callbacks that unsubscribe and disconnect, fairness | all properties hold |
| `subscriptions_destroyed_inside` | 1 task, callbacks that destroy the client | violated, see below |
| `shared_attributes` | a set of 2 attributes subscribed one by one, entries for all keys, 2 messages, callbacks that unregister and disconnect | all properties hold |
| `client_attributes` | 2 attributes asked for one by one, 1 time series, 1 change, 2 messages, 2 connections, queue of 1 | all properties hold |
| `provisioning` | 2 clients, 2 schemas, 3 configurations, 2 answers, queue of 1, 1 tick, 2 rounds, fairness | all properties hold |
| `ota` | 3 firmwares of 1, 3 and 2 chunks, 2 assignments, 1 connection, 1 crash | all properties hold |
| `ota_reconnect` | 2 firmwares, 1 assignment, 2 connections, queue of 2, fairness | holds |
| `ota_header_skipped` | as `ota`, one version invalid | violated, see below |

### Why the bounds are enough

- Four bytes and three pieces per message give every order of first, middle and last
  piece; three messages let a cut one, a whole one and a further one meet. Four bytes
  exceed the limit, three are exactly the limit.
- Two requests in one list show that the list empties late, that ids are compared, and
  that one request joins another. Three connection changes are up, down, up: the
  smallest number at which a queued event is stale. A queue of two holds a stale event
  and one more, and is full at once, so events are dropped. Two requests of different
  kinds show the sweep going on from one list to the next.
- Two subscriptions are one that is called and one that was saved as next; two messages
  let a walk be nested in another one; two connections let a queued `CONNECTED` be stale.
  A set of two attributes with batches of one has two entries, and a walk of its own
  that goes on after a callback has changed it.
- Two published messages let the second one overtake nothing but follow a first one that
  is sent again; two registrations let a key be registered again. In `provisioning` a
  queue of one is full at once, so both tasks get to wait for it while the application
  stops them; two answers are one more than the request; two attempts to connect are one
  more than the first. Two rounds are enough for one in which nothing has happened yet.
- Two assignments of firmwares with two and three chunks let chunks of two firmwares
  meet in one download. In `ota` a timeout is zero ticks: a download may time out at any
  moment, which contains every other timing. `ota_reconnect` has a timeout of one tick.
- `TB_MQTT_TIMEOUT` is 1 elsewhere, with the gate of `TB_MQTT_TIMEOUT + 2` ticks for
  checks as in the code.

In `session_live` there is one task: with a second one, the answer that comes before its
request is in the list (below) only makes the request expire. Deadlock is checked in
`provisioning`, where a wait that never ends would show, and in the sessions, which never
rest, since time goes on. It is not checked where the system may rest: when all messages
are sent, when there is nothing to update, or when nothing is registered.

### Fairness

`FairSpec` of `TbcmhSession` assumes that the application keeps calling `tbcmh_run`
(`Handle`), that tasks inside a request function are scheduled, that the periodic timer
fires and that time passes. Nothing is assumed of the connection, the server or the
application's requests. `tbcmh_disconnect` looks at the queue right after
`tbcmh_run` has emptied it; the queue is not full of events at each such moment, so its
steps that need an empty queue are strongly fair. `FairSpec` of `OtaUpdate` assumes the
same of the Runner, the check of timeouts and time, and that a restart that was asked for
comes. `FairSpec` of `Subscriptions` assumes only that the Runner goes on and that
callbacks return. `FairSpec` of `Provisioning` assumes that `mqtt_app_start` goes on, and
that a task that is copying an event into a queue with room gets to finish it.

## What the runs found

Two disagreements with what the repository says, each with a run:

- `ota_header_skipped` (`ota_update.c:581`). A first chunk that cannot be written
  leaves `image_header_was_checked` set, and the header of the next firmware is not
  checked.
- `subscriptions_destroyed_inside` (`tbc_mqtt_helper.c:622`). The header allows a
  callback to destroy the client and to return 2. The walk ends then, but the loop of
  `tbcmh_run` around it goes on with the client that was freed.

What the code does in the following cases is written into the properties as their
exceptions, or into the constants of the runs. Changing those shows each of them:

- A request after a reconnect joins the list of requests of the lost connection, whose
  loss is still queued. The list is not empty, so nothing is subscribed, and the answer
  cannot come; the stale event then expires the new request with the old ones. This is
  `LossUnhandled` in `SubscribedUnlessStale` (`attributes_request.c:145`).
- With `Tasks = {app, task}`, `session_single` violates `SubscribedUnlessStale`: a task
  finds the list non-empty and does not subscribe, the Runner takes the last request out
  and unsubscribes without the lock, the task inserts (`attributes_request.c:434`). It
  also violates `AnswerIsDelivered`: an answer may overtake the insertion of its own
  request and is dropped (`attributes_request.c:425`). `AnswerReachesAccepted`, which
  holds with two tasks, says that this is the only way to miss an answer.
- With `CallbackRequests = TRUE`, `session_single` violates `NoLostRequest`: a request
  made in `on_timeout` while a disconnection is handled is accepted, and then wiped from
  the list by memset (`attributes_request.c:114`, and the same in `client_rpc.c` and
  `provision_request.c`). `DroppedOnlyByDisconnection` says that this is the only way.
- Without `ignored` in it, `SafeIfResultsCount` is violated: the result of `on_update` of
  a subscription to all keys is not looked at, and the walk goes on to an entry that the
  callback has removed (`attributes_subscribe.c:376`). Without `intruded` it is violated
  with two tasks: another task may remove the entry that the walk has saved
  (`attributes_subscribe.c:371`).
- In the same way, without `ignored` the device may have an older shared attribute than
  the last one handled: the outer walk goes on after the inner one
  (`DeviceIsUpToDate`). `cut` is a walk that a callback ended: attributes behind it miss
  the update.
- `raced` in `SettledAgrees`: a value that is published or changed while a request for
  it is open is overwritten by the response, which is older.
- `HandlerIsMissing` names both moments at which `on_event` is called while it is NULL:
  by the MQTT task before `tbcm_connect` has set it (`tbc_mqtt_wapper.c:360`), and by
  the timer, which outlives `tbcm_disconnect` (`tbc_mqtt_wapper.c:137`).
- `tbcmh_disconnect` does nothing while esp-mqtt waits to reconnect. `tbcmh_destroy` then
  deletes the queue before it stops esp-mqtt: `skipped` in `NoUseAfterDestroy`
  (`tbc_mqtt_helper.c:123`).
- `tbcmh_normalconn_create` of the example returns the client that it has destroyed when
  it cannot connect, and the application uses it (`UsesFreedOnlyDiscarded`).
- With `DrainsQueue = TRUE`, `ota` violates `BootIsAnnounced`: events that are handled
  after `on_updated(true)` and before the restart can start a download into the new boot
  partition, which erases it (`ota_update.c:439`).

## Proofs

Proofs hold for every value of the constants under the named assumptions in the modules
(`PayloadBufferAssumption`, `SessionAssumption`, ...), which only state what the
constants are. The bounds of the models are constants too, so the theorems hold for all
of them. Some theorems have a hypothesis about the program that uses the library, which
their statements give: `OneTask`, `RestartsFirst`, that callbacks do not destroy the
client, and `FewIds`.

`PayloadBufferProofs`: types, and the three properties of `PayloadBuffer`. None is
inductive by itself, since none says what a buffer in the middle of a message holds.
`BufferTracks` does: while a message that is not too long is read, the last
`received_len` bytes before the offset are its own, and if no malloc failed these are
all bytes before it. `NotYetDelivered` says that nothing of the message on the wire has
been delivered, `AnnouncedAtZero` where it starts. Leftovers of a cut message need no
invariant: the first piece of the next message clears them.

`TbcmhSessionProofs`: types, and `AtMostOneCallback` with any number of tasks and
requests, with or without requests in callbacks. A count of callbacks says nothing of
who will still be called. The invariant `IInv` adds: a request the client still holds
is in exactly one of the list, the sweep or the hand of the answer handler
(`HeldOnce`); it was accepted and has not been called back (`HeldIsOpen`); and a
request that is being made belongs to one task, which holds the lock (`BusyHasLock`).

Which request gets an answer depends on the ids. `IdsInv` says that ids are drawn in
order, one for each request that is published, before it can be in a list. On the wire
they wrap at `MaxId`, and two numbers less than `MaxId` apart differ there
(`WireIdsDiffer`). So `AnswersGoHome`: if no request waits while `MaxId` others are made
(`IdsAreApart`, a condition on the lists and not on how long the program has run), an
answer that comes after its request was accepted leads to this request. As long as no
more requests are made than there are ids (`FewIds`) this is `AnswerReachesAccepted`.

`TbcmhSessionPromiseProofs`: `DroppedOnlyByDisconnection` in general. If the Runner is
the only task and callbacks make no requests (`OneTask`), then `NoLostRequest`, and every
step of the session is a step of `RequestPromise` under the mapping or a stutter. What
is needed beyond `IInv` is that the memset finds nothing: the list of a kind that has
been swept is empty until its turn is over (`SweptIsEmpty`), since nobody can insert
(`HandsEmpty`), and what is being timed out is apart from the lists (`Apart`).

Also with one task: `SubscribedUnlessStale` follows from `Fresh`, which is about all
requests that wait, those that are still being made included: each is `Served`, which
means subscribed on this connection, or a loss is in the queue or being swept. Lists
that were swept hold nobody (`Sweeps`), and a client that is being stopped is not
connected (`Stops`); `SubscriptionIsUsed` is kept by the same steps. For
`AnswerIsDelivered`, with `FewIds`, answers are only of requests that were made
(`Answers`), so that the one task, which is not inside a request function when it
handles an answer, finds the request in its list.

`SubscriptionsProofs`: types, `TopicsFollowLists`, and `SafeIfResultsCount` if
callbacks do not destroy the client. That `After` gives a member of the list is the
well-foundedness of the numbers. `TopicsFollowLists` needs that no topic is subscribed
without a connection (`Live`). For `SafeIfResultsCount` the invariant `Sound` describes
the whole stack of nested calls (`StackFits`): in every walk that will go on, the saved
entry is listed; and only the innermost call can be such a walk, since a callback that
has called `tbcmh_disconnect` returns 2. So an inner walk may remove what it likes.

`SharedAttributesProofs`: types, `AttributesAreListed` and `DeviceIsUpToDate`. The steps
of the subscriptions below the set inherit what `SubscriptionsProofs` says of them.

- That subscribing in batches makes the entries that come next, each of them, is
  arithmetic: ranks of a set of n attributes are 1 to n, so their quotients by the size
  of a batch leave no gap (`RanksAre`, `EntriesAreNext`).
- `AttributesAreListed` is about a set that is in use; the invariant (`ListedInv`) adds
  that an attribute not yet registered has no `subscribe_id`, that a set which is not
  in use has no subscribed attribute, and that entries of the set are among those made.
- `DeviceIsUpToDate` says nothing while a walk runs. The invariant (`UpToDate`) says what
  is still to come: unless a callback has ended a walk or will (`Clean`), every key whose
  last message the device lacks is in the message of the walk at the top of the stack,
  which has not passed the entry or the attribute yet (`ToCome`). It needs that a walk
  runs inside of no other, but the walk of the set in its own entry (`Alone`): whoever
  makes the Runner take a message out inside a callback has called `tbcmh_disconnect`
  and returns 2. It also needs that no walk is older than what was heard (`Ahead`),
  since the queue is in order (`InOrder`), and what is true of each call on the stack
  (`Frames`).

`ClientAttributesProofs`: types, `AcceptedArrives`, which is inductive with the types, and
`SettledAgrees`. For the second, the last update of a key in the outbox has the device's
value, and where there is none the server has this value or none (`Agreed`); a request
comes after all updates of its keys, and an answer has the values the server
still has, except for keys that raced (`Requested`, `Responded`). Both rest on the
outbox being in the order of its numbers (`InOrder`).

`ProvisioningProofs`: types and all safety properties of the run. Its invariant says what
a client has in each phase of its life (`Lives`), where the application can be inside a
call and with which client (`Calls`), where it is in `mqtt_app_start` (`Places`), and
that credentials come from the last answer (`Answers`).

`OtaUpdateProofs`: types, `ChunksAreOurs` and `TopicWhileDownloading` from `DownloadInv`,
which adds that queued events name chunks that were asked for (`EventsFit`) and that a
download is of a connection up to the present one. `BootIsAnnounced` holds if the
application restarts before it handles further events (`RestartsFirst`). Its invariant
`BootInv` says what the writer runs from (`RunsBoot`), what waits for the restart
(`Rests`), and that what was written and what the checksum was computed of end with the
same chunk (`Agrees`): with `esp_ota_end`, which refuses all but a whole image, and a
checksum that fits, both are the announced firmware.

All safety properties of the runs are proved, some under the hypotheses above. Only
model-checked is what is temporal (`PromiseKept` as a whole, `GetsSubscribed`,
`ApplicationEnds`, `DownloadEnds`), since liveness under fairness is outside what TLAPS
can prove. `SubscribedUnlessStale`, `NoLostRequest`, `AnswerIsDelivered` and
`SubscriptionIsUsed` are properties of one task in the runs too. `InvalidIsNotInstalled`
and `NoUseAfterFree` are false, as the runs show.

## Not modelled

- One-way RPCs: they publish once and keep nothing. That they draw an id without the
  lock, like the requests of chunks, is in the plan.
- The cells of the lists (`LIST_REMOVE` without the lock while another task inserts).
- Software updates (they always fail when they are created) and status telemetry.
- Copies of the strings of a configuration other than credentials, and the flag for logs.
- The main functions of the other examples: straight-line code that calls what the
  modules have as their environment.
- Formats: JSON, topics, parsing of numbers. Only whether parsing fails is modelled.
- `esp_ota_begin` failing for good after `image_header_was_checked` was set
  (`ota_fwupdate.c:260`): that no later update succeeds is a question of possibility,
  which a safety property cannot state.

## Plan

1. `RequestIds`: `tbc_mqtt_helper.c:38` asks for a lock around the increment of
   `next_request_id`, and `client_rpc.c:150` and `ota_update.c:494` draw without it. A
   task that is suspended between reading and writing takes the counter back, and two
   pending requests get one id.
2. `ListCells`: the pointers of a list, for the data races that `TbcmhSession` leaves out.
3. Proofs about the two: which steps of `RequestIds` keep ids apart, and that the cells of
   `ListCells` form a list as long as the lock is held.
