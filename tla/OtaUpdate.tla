----------------------------- MODULE OtaUpdate -----------------------------
(***************************************************************************)
(* Firmware updates over the air, helper/ota_update.c with its writer      *)
(* helper/ota_fwupdate.c.                                                  *)
(*                                                                         *)
(* The server announces a firmware with shared attributes: as an update,   *)
(* or as the response to the request that is sent after every connect.     *)
(* The client negotiates, downloads the image chunk by chunk, writes each  *)
(* chunk to flash, verifies the checksum and sets the boot partition.      *)
(*                                                                         *)
(* All handlers run in the task that calls tbcmh_run, one event after the  *)
(* other, and are atomic here.  All entries of otaupdate_list have the     *)
(* same title, so only its first one ever downloads: the list is the       *)
(* number of its entries and the download of the first.  Lengths are       *)
(* counted in chunks, and a checksum is the sequence it was computed of.   *)
(***************************************************************************)
EXTENDS Integers, Sequences

CONSTANTS
  Version,            \* firmware versions
  Size,               \* the number of chunks of each
  Factory,            \* the version the device starts with
  Invalid,            \* versions in the last invalid partition
  OtherAlgorithm,     \* versions announced with a checksum other than CRC32
  PartitionSize,      \* capacity of a partition
  NULL,
  QueueSize,          \* capacity of _xQueue, 40 in the code
  TB_MQTT_TIMEOUT,    \* in ticks of the clock, 30 s in the code
  DrainsQueue,        \* events are handled between on_updated(true) and the restart
  MaxEntries,         \* bound: entries of otaupdate_list
  MaxAnnouncements,   \* bound: how often the server assigns a firmware
  MaxSessions,        \* bound: how often the client connects
  MaxCrashes          \* bound: how often the device restarts unexpectedly

Partition == {"ota_0", "ota_1"}
Other(p) == CHOOSE q \in Partition : q # p
Chunk == [version : Version, index : Nat]

\* The chunks of a firmware, and the chunk a server sends for an id.
Image(v) == [i \in 1..Size[v] |-> [version |-> v, index |-> i - 1]]
ChunkOf(v, i) == IF i < Size[v] THEN [version |-> v, index |-> i] ELSE NULL

ASSUME OtaAssumption ==
  /\ Size \in [Version -> Nat \ {0}]
  /\ Factory \in Version \ Invalid
  /\ Invalid \subseteq Version
  /\ OtherAlgorithm \subseteq Version
  /\ PartitionSize \in Nat \ {0}
  /\ NULL \notin Version \cup Chunk
  /\ QueueSize \in Nat \ {0}
  /\ TB_MQTT_TIMEOUT \in Nat
  /\ DrainsQueue \in BOOLEAN
  /\ {MaxEntries, MaxAnnouncements, MaxSessions, MaxCrashes} \subseteq Nat

VARIABLES
  \* The server and the connection.
  target,         \* the firmware assigned to the device
  connected,
  topic,          \* the chunk response topic is subscribed
  watching,       \* attribute updates are subscribed
  requested,      \* a shared attributes request may be answered
  asked,          \* chunk requests the server may answer
  queue,          \* _xQueue, without what other modules handle
  \* ota_update.c.
  entries,        \* length of otaupdate_list
  download,       \* state and attribute of its first entry
  drawn,          \* next_request_id
  watchers,       \* attribute subscriptions made in on_connected
  news, notify,   \* an announcement, and how many handlers it goes to
  \* ota_fwupdate.c and the flash.
  fwupdate,       \* _fwupdate
  flash,          \* what each partition holds
  boot, running,  \* partitions
  \* The application and history.
  rebooting,      \* on_updated(true) was called
  announced,      \* the version announced for what the boot partition got
  announcements, session, crashes

server == <<target, connected, topic, watching, requested, asked>>
writer == <<fwupdate, flash, boot, running>>
bounds == <<announcements, session, crashes>>
vars == <<server, queue, entries, download, drawn, watchers, news, notify, writer,
          rebooting, announced, bounds>>

Update == Other(running)

\* session and from are history: when the download began, and which requests
\* its chunks answered.
NoDownload == [request_id |-> 0, chunk_id |-> 0, ota_size |-> 0, ota_checksum |-> NULL,
               checksum |-> << >>, age |-> 0, session |-> 0, from |-> {}]
Closed == [update_handle |-> FALSE, image_header_was_checked |-> FALSE]

Init ==
  /\ target = Factory /\ connected = FALSE /\ topic = FALSE /\ watching = FALSE
  /\ requested = FALSE /\ asked = {} /\ queue = << >>
  /\ entries = 0 /\ download = NoDownload /\ drawn = 0 /\ watchers = 0
  /\ news = NULL /\ notify = 0
  /\ fwupdate = Closed
  /\ flash = [p \in Partition |-> IF p = "ota_0" THEN Image(Factory) ELSE << >>]
  /\ boot = "ota_0" /\ running = "ota_0"
  /\ rebooting = FALSE /\ announced = Factory
  /\ announcements = 0 /\ session = 0 /\ crashes = 0

-----------------------------------------------------------------------------
(* The server and the connection.                                          *)

\* Mutant: one event more than the queue can hold.
PostOneTooMany(e) == queue' = IF Len(queue) <= QueueSize THEN Append(queue, e) ELSE queue

\* _on_tbcm_event_bridge_send
Post(e) == queue' = IF Len(queue) < QueueSize THEN Append(queue, e) ELSE queue

Signal(type) == [type |-> type, version |-> NULL]
News(v) == [type |-> "attributes update", version |-> v]
Reply(v) == [type |-> "attributes response", version |-> v]

Connect ==
  /\ ~connected /\ session < MaxSessions
  /\ connected' = TRUE
  /\ session' = session + 1
  /\ Post(Signal("CONNECTED"))
  /\ UNCHANGED <<target, topic, watching, requested, asked, entries, download, drawn, watchers,
                 news, notify, writer, rebooting, announced, announcements, crashes>>

\* The session is clean: all subscriptions are gone.
Disconnect ==
  /\ connected
  /\ connected' = FALSE /\ topic' = FALSE /\ watching' = FALSE /\ requested' = FALSE
  /\ Post(Signal("DISCONNECTED"))
  /\ UNCHANGED <<target, asked, entries, download, drawn, watchers,
                 news, notify, writer, rebooting, announced, bounds>>

Announce(v) ==
  /\ announcements < MaxAnnouncements
  /\ announcements' = announcements + 1
  /\ target' = v
  /\ IF watching THEN Post(News(v)) ELSE UNCHANGED queue
  /\ UNCHANGED <<connected, topic, watching, requested, asked, entries, download, drawn,
                 watchers, news, notify, writer, rebooting, announced, session, crashes>>

AnswerAttributes ==
  /\ requested
  /\ requested' = FALSE
  /\ Post(Reply(target))
  /\ UNCHANGED <<target, connected, topic, watching, asked, entries, download, drawn, watchers,
                 news, notify, writer, rebooting, announced, bounds>>

\* The chunk of the firmware that is assigned now.  The request may have been
\* sent twice and is then answered twice; any answer may be lost.
AnswerChunk(q) ==
  /\ connected /\ topic
  /\ q \in asked
  /\ asked' \in {asked, asked \ {q}}
  /\ Post([type |-> "chunk", request_id |-> q.request_id, chunk_id |-> q.chunk_id,
           payload |-> ChunkOf(target, q.chunk_id)])
  /\ UNCHANGED <<target, connected, topic, watching, requested, entries, download, drawn,
                 watchers, news, notify, writer, rebooting, announced, bounds>>

Tick ==
  /\ download.request_id > 0 /\ download.age < TB_MQTT_TIMEOUT
  /\ download' = [download EXCEPT !.age = @ + 1]
  /\ UNCHANGED <<server, queue, entries, drawn, watchers, news, notify, writer,
                 rebooting, announced, bounds>>

-----------------------------------------------------------------------------
(* The writer.                                                             *)

\* What ota_fwupdate_write can do with a chunk, in the order of its returns.
WriteOutcome == {"rejected", "not begun", "not written", "written"}

\* The header is at the start of the image; of any other chunk what is taken
\* for a version is arbitrary.
HeaderMayFit(c) == c.index > 0 \/ c.version \notin Invalid \cup {flash[running][1].version}
HeaderMayNotFit(c) == c.index > 0 \/ ~HeaderMayFit(c)

HeaderPassed(c) == fwupdate.image_header_was_checked \/ HeaderMayFit(c)

\* What is open for writing: the handle of an earlier call, or a new one.
Opened ==
  IF fwupdate.image_header_was_checked
  THEN [open |-> fwupdate.update_handle, content |-> flash[Update]]
  ELSE [open |-> TRUE, content |-> << >>]

\* ota_fwupdate_write: its outcomes, what it leaves in _fwupdate, in flash.
WriteMay(o, c) ==
  \/ o = "rejected" /\ ~fwupdate.image_header_was_checked /\ HeaderMayNotFit(c)
  \/ o = "not begun" /\ ~fwupdate.image_header_was_checked /\ HeaderMayFit(c)
  \/ o = "not written" /\ HeaderPassed(c)
  \/ o = "written" /\ HeaderPassed(c) /\ Opened.open /\ Len(Opened.content) < PartitionSize

WriterAfter(o) ==
  [update_handle |-> IF o \in {"not written", "written"} THEN Opened.open
                     ELSE fwupdate.update_handle,
   image_header_was_checked |-> o # "rejected"]

ContentAfter(o, c) ==
  CASE o \in {"rejected", "not begun"} -> flash[Update]
    [] o = "not written" -> Opened.content
    [] o = "written" -> Append(Opened.content, c)

\* Mutant: the result of esp_ota_end is not looked at.
EndMayAlwaysSucceed(content) == TRUE

\* ota_fwupdate_end: esp_ota_end validates the image, and may fail all the
\* same, like esp_ota_set_boot_partition.
EndMaySucceed(content) == \E v \in Version : content = Image(v)

-----------------------------------------------------------------------------
(* Parts of the handlers.                                                  *)

\* _otaupdate_do_updated
DoUpdated(success) ==
  /\ topic' = IF connected THEN FALSE ELSE topic
  /\ rebooting' = (rebooting \/ success)

\* _otaupdate_do_abort: the writer is not told when nothing was received.
DoAbort(d, fw) == fwupdate' = IF d.request_id > 0 /\ d.checksum # << >> THEN Closed ELSE fw

\* Mutant: the download is not reset.
FailWithoutReset(d, fw) ==
  /\ DoAbort(d, fw)
  /\ download' = d
  /\ DoUpdated(FALSE)

\* The download d ends without success: abort, reset, on_updated(false).
Fail(d, fw) ==
  /\ DoAbort(d, fw)
  /\ download' = NoDownload
  /\ DoUpdated(FALSE)

\* _otaupdate_chunk_request, with the chunk response topic subscribed or not;
\* publishing may fail.
ChunkRequest(d, fw, subscribed) ==
  \/ /\ download' = [d EXCEPT !.age = 0]
     /\ asked' = asked \cup {[request_id |-> d.request_id, chunk_id |-> d.chunk_id]}
     /\ fwupdate' = fw
     /\ topic' = subscribed
     /\ UNCHANGED rebooting
  \/ /\ Fail(d, fw)
     /\ UNCHANGED asked

\* _otaupdate_checksum_verification; memory for the checksum may have lacked.
Verified(d) == d.ota_checksum # NULL /\ d.checksum = Image(d.ota_checksum)

\* All is received: verify and end, then on_updated.
Finish(d, fw, content) ==
  \/ /\ Verified(d)
     /\ EndMaySucceed(content)
     /\ boot' = Update
     /\ announced' = d.ota_checksum
     /\ fwupdate' = Closed
     /\ download' = NoDownload
     /\ DoUpdated(TRUE)
  \/ /\ Fail(d, fw)
     /\ UNCHANGED <<boot, announced>>

-----------------------------------------------------------------------------
(* The task that calls tbcmh_run.                                          *)

Running == notify = 0 /\ (rebooting => DrainsQueue)

Receive(type) ==
  /\ Running
  /\ queue # << >>
  /\ Head(queue).type = type
  /\ queue' = Tail(queue)

\* _tbcmh_otaupdate_on_connected: one more subscription to the attributes, and
\* a request; each may fail.
OnConnected ==
  /\ Receive("CONNECTED")
  /\ \/ /\ entries = 0
        /\ watching' = (watching \/ (connected /\ watchers > 0))
        /\ UNCHANGED <<watchers, requested>>
     \/ /\ entries > 0
        /\ watchers' \in {watchers, watchers + 1}
        /\ watching' = (watching \/ (connected /\ watchers' > 0))
        /\ \/ requested' = connected
           \/ UNCHANGED requested
  /\ UNCHANGED <<target, connected, topic, asked, entries, download, drawn, news, notify,
                 writer, rebooting, announced, bounds>>

\* _tbcmh_otaupdate_on_disconnected: every download times out.
OnDisconnected ==
  /\ Receive("DISCONNECTED")
  /\ \/ /\ download.request_id > 0
        /\ Fail(download, fwupdate)
     \/ /\ download.request_id = 0
        /\ UNCHANGED <<fwupdate, download, topic, rebooting>>
  /\ UNCHANGED <<target, connected, watching, requested, asked, entries, drawn, watchers,
                 news, notify, flash, boot, running, announced, bounds>>

\* Mutant: only a download that has received nothing times out.
OnChunkCheckTimeoutBeforeData ==
  /\ Running
  /\ download.request_id > 0 /\ download.age >= TB_MQTT_TIMEOUT
  /\ download.chunk_id = 0
  /\ Fail(download, fwupdate)
  /\ UNCHANGED <<target, connected, watching, requested, asked, queue, entries, drawn, watchers,
                 news, notify, flash, boot, running, announced, bounds>>

\* _tbcmh_otaupdate_on_chunk_check_timeout, whenever it is called.
OnChunkCheckTimeout ==
  /\ Running
  /\ download.request_id > 0 /\ download.age >= TB_MQTT_TIMEOUT
  /\ Fail(download, fwupdate)
  /\ UNCHANGED <<target, connected, watching, requested, asked, queue, entries, drawn, watchers,
                 news, notify, flash, boot, running, announced, bounds>>

\* An announcement goes to every subscription, a response to its request.
OnAttributes ==
  /\ \/ Receive("attributes update") /\ notify' = watchers
     \/ Receive("attributes response") /\ notify' = 1
  /\ news' = Head(queue).version
  /\ UNCHANGED <<server, entries, download, drawn, watchers, writer, rebooting, announced, bounds>>

\* __otaupdate_on_sharedattributes.  A checksum algorithm the client does not
\* know is refused first; else _otaupdate_reset comes before all other checks.
Negotiate ==
  LET d == [NoDownload EXCEPT !.request_id = drawn + 1, !.ota_size = Size[news],
                              !.ota_checksum = news, !.session = session]
      known == entries > 0 /\ news \notin OtherAlgorithm
      acceptable == news # flash[running][1].version /\ Size[news] <= PartitionSize
  IN /\ notify > 0
     /\ notify' = notify - 1
     /\ news' = IF notify = 1 THEN NULL ELSE news
     /\ \/ /\ ~known
           /\ UNCHANGED <<topic, asked, download, drawn, fwupdate, rebooting>>
        \/ /\ known /\ ~acceptable
           /\ download' = NoDownload
           /\ UNCHANGED <<topic, asked, drawn, fwupdate, rebooting>>
        \/ /\ known /\ acceptable
           /\ drawn' = drawn + 1
           /\ \E checksum \in {news, NULL} :
                ChunkRequest([d EXCEPT !.ota_checksum = checksum], fwupdate, topic \/ connected)
     /\ UNCHANGED <<target, connected, watching, requested, queue, entries, watchers,
                    flash, boot, running, announced, bounds>>

\* Mutant: the chunk id is not compared.
ChunkFitsAnyway(e) == e.payload # NULL

\* _otaupdate_do_write refuses a chunk out of order and an empty one.
ChunkFits(e) == e.chunk_id = download.chunk_id /\ e.payload # NULL

\* _tbcmh_otaupdate_on_chunk_data, when the request_id is that of a download.
Accept(e) ==
  \/ /\ ~ChunkFits(e)
     /\ Fail(download, fwupdate)
     /\ UNCHANGED <<asked, flash, boot, announced>>
  \/ /\ ChunkFits(e)
     /\ \E o \in WriteOutcome :
          LET d == [download EXCEPT !.chunk_id = @ + 1,
                                    !.checksum = Append(@, e.payload),
                                    !.from = @ \cup {e.request_id}]
          IN /\ WriteMay(o, e.payload)
             /\ flash' = [flash EXCEPT ![Update] = ContentAfter(o, e.payload)]
             /\ \/ /\ o # "written"
                   /\ Fail(download, WriterAfter(o))
                   /\ UNCHANGED <<asked, boot, announced>>
                \/ /\ o = "written" /\ Len(d.checksum) >= d.ota_size
                   /\ Finish(d, WriterAfter(o), ContentAfter(o, e.payload))
                   /\ UNCHANGED asked
                \/ /\ o = "written" /\ Len(d.checksum) < d.ota_size
                   /\ ChunkRequest(d, WriterAfter(o), topic)
                   /\ UNCHANGED <<boot, announced>>

OnChunkData ==
  /\ Receive("chunk")
  /\ \/ /\ entries > 0 /\ Head(queue).request_id = download.request_id
        /\ Accept(Head(queue))
     \/ /\ ~(entries > 0 /\ Head(queue).request_id = download.request_id)
        /\ UNCHANGED <<topic, asked, download, fwupdate, flash, boot, rebooting, announced>>
  /\ UNCHANGED <<target, connected, watching, requested, entries, drawn, watchers,
                 news, notify, running, bounds>>

-----------------------------------------------------------------------------
(* The application.                                                        *)

\* ota_fwupdate_init resets the writer, whatever it is doing; creating the
\* entry may fail after that.
tbcmh_otaupdate_subscribe ==
  /\ ~rebooting
  /\ entries' \in {entries, entries + 1} \cap 0..MaxEntries
  /\ fwupdate' = Closed
  /\ UNCHANGED <<server, queue, download, drawn, watchers, news, notify, flash, boot, running,
                 rebooting, announced, bounds>>

\* The first entry or a later one is destroyed; nothing is aborted.
tbcmh_otaupdate_unsubscribe ==
  /\ ~rebooting /\ entries > 0
  /\ entries' = entries - 1
  /\ \/ download' = NoDownload
     \/ entries > 1 /\ UNCHANGED download
  /\ UNCHANGED <<server, queue, drawn, watchers, news, notify, writer, rebooting, announced,
                 bounds>>

\* The device restarts, as the application wants or by itself.  The boot
\* loader falls back to the other partition when it finds no image.
Restart ==
  /\ \/ rebooting /\ UNCHANGED crashes
     \/ crashes < MaxCrashes /\ crashes' = crashes + 1
  /\ running' = IF EndMaySucceed(flash[boot]) THEN boot ELSE Other(boot)
  /\ boot' = running'
  /\ connected' = FALSE /\ topic' = FALSE /\ watching' = FALSE /\ requested' = FALSE
  /\ queue' = << >> /\ entries' = 0 /\ download' = NoDownload /\ drawn' = 0 /\ watchers' = 0
  /\ news' = NULL /\ notify' = 0 /\ fwupdate' = Closed /\ rebooting' = FALSE
  /\ UNCHANGED <<target, asked, flash, announced, announcements, session>>

-----------------------------------------------------------------------------
Environment ==
  \/ Connect
  \/ Disconnect
  \/ \E v \in Version : Announce(v)
  \/ AnswerAttributes
  \/ \E q \in asked : AnswerChunk(q)
  \/ Tick

Run ==
  \/ OnConnected
  \/ OnDisconnected
  \/ OnAttributes
  \/ Negotiate
  \/ OnChunkData

Next ==
  \/ Environment
  \/ Run
  \/ OnChunkCheckTimeout
  \/ tbcmh_otaupdate_subscribe
  \/ tbcmh_otaupdate_unsubscribe
  \/ Restart

Spec == Init /\ [][Next]_vars

\* The application calls tbcmh_run, the timer fires, time passes, and a
\* restart that was asked for comes.
FairSpec ==
  /\ Spec
  /\ WF_vars(Run) /\ WF_vars(OnChunkCheckTimeout) /\ WF_vars(Tick)
  /\ WF_vars(rebooting /\ Restart)

-----------------------------------------------------------------------------
(* Properties.                                                             *)

Event ==
  [type : {"CONNECTED", "DISCONNECTED"}, version : {NULL}]
    \cup [type : {"attributes update", "attributes response"}, version : Version]
    \cup [type : {"chunk"}, request_id : Nat, chunk_id : Nat, payload : Chunk \cup {NULL}]

ServerType ==
  /\ target \in Version
  /\ connected \in BOOLEAN /\ topic \in BOOLEAN /\ watching \in BOOLEAN /\ requested \in BOOLEAN
  /\ asked \subseteq [request_id : Nat, chunk_id : Nat]
  /\ queue \in Seq(Event) /\ Len(queue) <= QueueSize

Download ==
  [request_id : Nat, chunk_id : Nat, ota_size : Nat, ota_checksum : Version \cup {NULL},
   checksum : Seq(Chunk), age : 0..TB_MQTT_TIMEOUT, session : Nat, from : SUBSET Nat]

DownloadType ==
  /\ entries \in 0..MaxEntries
  /\ download \in Download
  /\ {drawn, watchers, notify} \subseteq Nat
  /\ news \in Version \cup {NULL}
  /\ notify > 0 => news # NULL

WriterType ==
  /\ fwupdate \in [update_handle : BOOLEAN, image_header_was_checked : BOOLEAN]
  /\ flash \in [Partition -> Seq(Chunk)]
  /\ boot \in Partition /\ running \in Partition

HistoryType ==
  /\ rebooting \in BOOLEAN /\ announced \in Version
  /\ {announcements, session, crashes} \subseteq Nat

\* Types of the variables; the queue never holds more than its capacity.
TypeOK == ServerType /\ DownloadType /\ WriterType /\ HistoryType

\* The boot partition holds, from its first chunk to its last and at every
\* moment a crash could come, the firmware that was announced for it: no part
\* of another firmware the server was told to serve meanwhile, of an earlier
\* download, or of nothing.
BootIsAnnounced == flash[boot] = Image(announced)

\* A download consists of the chunks 0, 1, 2, ... that answered its own
\* requests: no chunk twice, none skipped, none asked for by a download that
\* was given up.
ChunksAreOurs ==
  /\ download.from \subseteq {download.request_id}
  /\ download.chunk_id = Len(download.checksum)
  /\ \A i \in 1..Len(download.checksum) : download.checksum[i].index = i - 1

\* A download that began on the connection that is up is subscribed to its
\* chunks, whatever announcements, failures and timeouts came before.
TopicWhileDownloading ==
  download.request_id > 0 /\ download.session = session /\ connected => topic

\* A firmware that is in the last invalid partition is not installed again.
InvalidIsNotInstalled == announced \notin Invalid

\* Every download ends, by success, an error, a timeout or a next one, and at
\* last there is none: whatever chunks are lost or come twice and whenever the
\* connection goes.
DownloadEnds == []<>(download = NoDownload)
=============================================================================
