--------------------------- MODULE OtaUpdateProofs ---------------------------
(***************************************************************************)
(* Proofs about OtaUpdate: for every set of firmwares of any size, and all *)
(* bounds.                                                                 *)
(*                                                                         *)
(* The types and the properties of a download hold as they are, with what  *)
(* the queue holds: DownloadInv.  That the boot partition holds what was   *)
(* announced needs more.  While nothing restarts, nothing but the other    *)
(* partition is written.  When the writer ends, esp_ota_end has found a    *)
(* whole image, and the checksum is that of the announced firmware; but    *)
(* the writer and the download may have been reset at different times, so  *)
(* that neither says what the other has seen.  They always end with the    *)
(* same chunk (Agrees), which is enough for two whole images to be one.    *)
(***************************************************************************)
EXTENDS OtaUpdate, TLAPS

-----------------------------------------------------------------------------
(* Partitions, images and events.                                          *)

LEMMA OtherIs ==
  ASSUME NEW p \in Partition
  PROVE  Other(p) \in Partition /\ Other(p) # p
BY DEF Other, Partition

LEMMA UpdateIs == ASSUME WriterType PROVE Update \in Partition /\ Update # running
BY OtherIs DEF WriterType, Update

LEMMA ImageIs ==
  ASSUME NEW v \in Version
  PROVE  /\ Image(v) \in Seq(Chunk)
         /\ Len(Image(v)) = Size[v] /\ Size[v] \in Nat \ {0}
         /\ \A i \in 1..Size[v] : Image(v)[i] = [version |-> v, index |-> i - 1]
<1>1. Size[v] \in Nat \ {0}
  BY OtaAssumption
<1>2. \A i \in 1..Size[v] : [version |-> v, index |-> i - 1] \in Chunk
  BY <1>1 DEF Chunk
<1> QED BY <1>1, <1>2 DEF Image

LEMMA ChunkOfIs ==
  ASSUME NEW v \in Version, NEW i \in Nat
  PROVE  /\ ChunkOf(v, i) \in Chunk \cup {NULL}
         /\ ChunkOf(v, i) # NULL => ChunkOf(v, i).index = i
BY DEF ChunkOf, Chunk

\* Putting an event into the queue.
LEMMA PostType ==
  ASSUME queue \in Seq(Event), Len(queue) <= QueueSize, NEW e \in Event, Post(e)
  PROVE  /\ queue' \in Seq(Event) /\ Len(queue') <= QueueSize
         /\ \A i \in 1..Len(queue') : queue'[i] = e \/ (i \in 1..Len(queue) /\ queue'[i] = queue[i])
BY OtaAssumption DEF Post

\* Taking one out.
LEMMA ReceiveType ==
  ASSUME queue \in Seq(Event), Len(queue) <= QueueSize, NEW type, Receive(type)
  PROVE  /\ queue' \in Seq(Event) /\ Len(queue') <= QueueSize
         /\ queue # << >> /\ Head(queue) \in Event /\ Head(queue) = queue[1]
         /\ Len(queue) \in Nat \ {0}
         /\ \A i \in 1..Len(queue') : i + 1 \in 1..Len(queue) /\ queue'[i] = queue[i + 1]
<1>1. queue # << >> /\ queue' = Tail(queue)
  BY DEF Receive
<1>2. Tail(queue) \in Seq(Event) /\ Len(Tail(queue)) = Len(queue) - 1 /\ Head(queue) \in Event
      /\ Len(queue) \in Nat \ {0} /\ Head(queue) = queue[1]
  BY <1>1
<1>3. \A i \in 1..Len(Tail(queue)) : i + 1 \in 1..Len(queue) /\ Tail(queue)[i] = queue[i + 1]
  BY <1>1, <1>2
<1> QED BY <1>1, <1>2, <1>3, OtaAssumption

\* A chunk in the queue is the one its id says.
EventsFit ==
  \A i \in 1..Len(queue) :
    queue[i].type = "chunk" /\ queue[i].payload # NULL => queue[i].payload.index = queue[i].chunk_id

\* What is known of a download: the inductive invariant.
DownloadInv ==
  /\ TypeOK
  /\ EventsFit
  /\ ChunksAreOurs
  /\ TopicWhileDownloading
  /\ download.session <= session

LEMMA NoDownloadIs ==
  /\ NoDownload \in Download /\ NoDownload.request_id = 0 /\ NoDownload.session = 0
  /\ NoDownload.from = {} /\ NoDownload.chunk_id = 0 /\ NoDownload.checksum = << >>
<1>1. << >> \in Seq(Chunk) /\ 0 \in 0..TB_MQTT_TIMEOUT
  BY OtaAssumption
<1> QED BY <1>1 DEF NoDownload, Download

LEMMA InitDownload == Init => DownloadInv
<1> SUFFICES ASSUME Init PROVE DownloadInv
  OBVIOUS
<1>1. << >> \in Seq(Event) /\ Len(<< >>) = 0 /\ << >> \in Seq(Chunk)
  OBVIOUS
<1>2. Factory \in Version /\ 0 \in 0..MaxEntries
  BY OtaAssumption
<1>3. ServerType
  <2>1. connected \in BOOLEAN /\ topic \in BOOLEAN /\ watching \in BOOLEAN /\ requested \in BOOLEAN
    BY Zenon DEF Init
  <2>2. target = Factory /\ asked = {} /\ queue = << >>
    BY Zenon DEF Init
  <2>3. queue \in Seq(Event) /\ Len(queue) <= QueueSize
    BY <1>1, <2>2, OtaAssumption
  <2> QED BY <1>2, <2>1, <2>2, <2>3 DEF ServerType
<1>4. DownloadType
  BY <1>2, NoDownloadIs DEF Init, DownloadType
<1>5. WriterType
  <2>1. "ota_0" \in Partition
    BY DEF Partition
  <2>2. flash = [p \in Partition |-> IF p = "ota_0" THEN Image(Factory) ELSE << >>]
        /\ boot = "ota_0" /\ running = "ota_0" /\ fwupdate = Closed
    BY DEF Init
  <2> QED BY <1>1, <1>2, <2>1, <2>2, ImageIs DEF WriterType, Closed
<1>6. HistoryType
  <2>1. rebooting \in BOOLEAN
    BY Zenon DEF Init
  <2>2. announced = Factory /\ announcements = 0 /\ session = 0 /\ crashes = 0
    BY Zenon DEF Init
  <2> QED BY <1>2, <2>1, <2>2 DEF HistoryType
<1>7. EventsFit
  BY <1>1 DEF Init, EventsFit
<1>8. ChunksAreOurs /\ TopicWhileDownloading /\ download.session <= session
  BY <1>1, NoDownloadIs DEF Init, ChunksAreOurs, TopicWhileDownloading
<1> QED BY <1>3, <1>4, <1>5, <1>6, <1>7, <1>8 DEF DownloadInv, TypeOK

-----------------------------------------------------------------------------
(* Parts of the handlers.                                                  *)

WriterState == [update_handle : BOOLEAN, image_header_was_checked : BOOLEAN]

\* A download that fails is gone, and no restart is asked for.
LEMMA FailIs ==
  ASSUME TypeOK, NEW d \in Download, NEW fw \in WriterState, Fail(d, fw)
  PROVE  /\ download' = NoDownload
         /\ fwupdate' \in {Closed, fw} /\ fwupdate' \in WriterState
         /\ topic' \in BOOLEAN /\ rebooting' = rebooting
<1>1. Closed \in WriterState
  BY DEF Closed, WriterState
<1>2. topic \in BOOLEAN /\ rebooting \in BOOLEAN
  BY DEF TypeOK, ServerType, HistoryType
<1>3. fwupdate' \in {Closed, fw}
  BY DEF Fail, DoAbort
<1>4. topic' \in {FALSE, topic} /\ rebooting' = (rebooting \/ FALSE) /\ download' = NoDownload
  BY DEF Fail, DoUpdated
<1>5. rebooting' = rebooting
  BY <1>2, <1>4
<1> QED BY <1>1, <1>2, <1>3, <1>4, <1>5

\* A request is sent, or the download fails.
LEMMA ChunkRequestIs ==
  ASSUME TypeOK, NEW d \in Download, NEW fw \in WriterState, NEW subscribed \in BOOLEAN,
         ChunkRequest(d, fw, subscribed)
  PROVE  /\ \/ download' = [d EXCEPT !.age = 0] /\ topic' = subscribed /\ fwupdate' = fw
            \/ download' = NoDownload /\ fwupdate' \in {Closed, fw}
         /\ download' \in Download /\ fwupdate' \in WriterState
         /\ topic' \in BOOLEAN /\ rebooting' = rebooting
         /\ asked' \subseteq [request_id : Nat, chunk_id : Nat]
<1>1. asked \subseteq [request_id : Nat, chunk_id : Nat]
  BY DEF TypeOK, ServerType
<1>2. CASE /\ download' = [d EXCEPT !.age = 0]
           /\ asked' = asked \cup {[request_id |-> d.request_id, chunk_id |-> d.chunk_id]}
           /\ fwupdate' = fw /\ topic' = subscribed /\ UNCHANGED rebooting
  <2>1. [d EXCEPT !.age = 0] \in Download
    <3>1. 0 \in 0..TB_MQTT_TIMEOUT
      BY OtaAssumption
    <3> QED BY <3>1 DEF Download
  <2>2. d.request_id \in Nat /\ d.chunk_id \in Nat
    BY DEF Download
  <2> QED BY <1>1, <1>2, <2>1, <2>2
<1>3. CASE Fail(d, fw) /\ UNCHANGED asked
  BY <1>1, <1>3, FailIs, NoDownloadIs
<1> QED BY <1>2, <1>3 DEF ChunkRequest

\* Everything is received: the download ends, well or not.
LEMMA FinishIs ==
  ASSUME TypeOK, NEW d \in Download, NEW fw \in WriterState, NEW content, Finish(d, fw, content)
  PROVE  /\ download' = NoDownload
         /\ fwupdate' \in {Closed, fw} /\ fwupdate' \in WriterState
         /\ topic' \in BOOLEAN /\ rebooting' \in BOOLEAN
         /\ boot' \in Partition /\ announced' \in Version
<1>1. CASE /\ Verified(d) /\ boot' = Update /\ announced' = d.ota_checksum
           /\ fwupdate' = Closed /\ download' = NoDownload /\ DoUpdated(TRUE)
  <2>1. Closed \in WriterState
    BY DEF Closed, WriterState
  <2>2. d.ota_checksum \in Version
    BY <1>1 DEF Verified, Download
  <2>3. topic' \in {FALSE, topic} /\ rebooting' = (rebooting \/ TRUE) /\ topic \in BOOLEAN
    BY <1>1 DEF DoUpdated, TypeOK, ServerType
  <2> QED BY <1>1, <2>1, <2>2, <2>3, UpdateIs DEF TypeOK
<1>2. CASE Fail(d, fw) /\ UNCHANGED <<boot, announced>>
  <2>1. rebooting \in BOOLEAN /\ boot \in Partition /\ announced \in Version
    BY DEF TypeOK, WriterType, HistoryType
  <2> QED BY <1>2, <2>1, FailIs
<1> QED BY <1>1, <1>2 DEF Finish

\* What the writer leaves.
LEMMA WriteIs ==
  ASSUME TypeOK, NEW o \in WriteOutcome, NEW c \in Chunk
  PROVE  WriterAfter(o) \in WriterState /\ ContentAfter(o, c) \in Seq(Chunk)
<1>1. fwupdate \in WriterState /\ flash[Update] \in Seq(Chunk)
  BY UpdateIs DEF TypeOK, WriterType, WriterState
<1>2. Opened.open \in BOOLEAN /\ Opened.content \in Seq(Chunk)
  <2>1. fwupdate.update_handle \in BOOLEAN
    BY <1>1 DEF WriterState
  <2>2. CASE fwupdate.image_header_was_checked
    <3>1. Opened = [open |-> fwupdate.update_handle, content |-> flash[Update]]
      BY <2>2 DEF Opened
    <3> QED BY <1>1, <2>1, <3>1
  <2>3. CASE ~fwupdate.image_header_was_checked
    <3>1. Opened = [open |-> TRUE, content |-> << >>]
      BY <2>3 DEF Opened
    <3> QED BY <3>1
  <2> QED BY <2>2, <2>3
<1>3. WriterAfter(o) \in WriterState
  BY <1>1, <1>2 DEF WriterAfter, WriterState
<1>4. ContentAfter(o, c) \in Seq(Chunk)
  <2>1. Append(Opened.content, c) \in Seq(Chunk)
    BY <1>2
  <2> QED BY <1>1, <1>2, <2>1 DEF ContentAfter, WriteOutcome
<1> QED BY <1>3, <1>4

-----------------------------------------------------------------------------
(* The server and the connection.                                          *)

LEMMA PostFits ==
  ASSUME TypeOK, EventsFit, NEW e \in Event, Post(e),
         e.type = "chunk" /\ e.payload # NULL => e.payload.index = e.chunk_id
  PROVE  EventsFit' /\ queue' \in Seq(Event) /\ Len(queue') <= QueueSize
<1>1. queue \in Seq(Event) /\ Len(queue) <= QueueSize
  BY DEF TypeOK, ServerType
<1> QED BY <1>1, PostType DEF EventsFit

LEMMA ReceiveFits ==
  ASSUME TypeOK, EventsFit, NEW type, Receive(type)
  PROVE  /\ EventsFit' /\ queue' \in Seq(Event) /\ Len(queue') <= QueueSize
         /\ Head(queue) \in Event /\ Head(queue).type = type
         /\ type = "chunk" /\ Head(queue).payload # NULL
              => Head(queue).payload.index = Head(queue).chunk_id
<1>1. queue \in Seq(Event) /\ Len(queue) <= QueueSize /\ Head(queue).type = type
  BY DEF TypeOK, ServerType, Receive
<1>2. /\ queue' \in Seq(Event) /\ Len(queue') <= QueueSize
      /\ Head(queue) \in Event /\ Head(queue) = queue[1] /\ 1 \in 1..Len(queue)
      /\ \A i \in 1..Len(queue') : i + 1 \in 1..Len(queue) /\ queue'[i] = queue[i + 1]
  BY <1>1, ReceiveType
<1>3. EventsFit'
  BY <1>2 DEF EventsFit
<1>4. type = "chunk" /\ Head(queue).payload # NULL
        => Head(queue).payload.index = Head(queue).chunk_id
  BY <1>1, <1>2 DEF EventsFit
<1> QED BY <1>1, <1>2, <1>3, <1>4

\* Events.
LEMMA EventsAre ==
  /\ \A type \in {"CONNECTED", "DISCONNECTED"} : Signal(type) \in Event /\ Signal(type).type = type
  /\ \A v \in Version : /\ News(v) \in Event /\ News(v).type = "attributes update"
                        /\ Reply(v) \in Event /\ Reply(v).type = "attributes response"
BY DEF Signal, News, Reply, Event

\* A download stays, or is gone.
LEMMA DownloadStays ==
  ASSUME DownloadInv, UNCHANGED <<download, session>>, connected' => connected /\ (topic => topic')
  PROVE  ChunksAreOurs' /\ TopicWhileDownloading' /\ download'.session <= session'
BY DEF DownloadInv, ChunksAreOurs, TopicWhileDownloading

LEMMA DownloadGoes ==
  ASSUME TypeOK, download' = NoDownload, session' = session
  PROVE  ChunksAreOurs' /\ TopicWhileDownloading' /\ download'.session <= session'
<1>1. session \in Nat /\ Len(<< >>) = 0
  BY DEF TypeOK, HistoryType
<1> QED BY <1>1, NoDownloadIs DEF ChunksAreOurs, TopicWhileDownloading

LEMMA ConnectInv == DownloadInv /\ Connect => DownloadInv'
<1> SUFFICES ASSUME DownloadInv, Connect PROVE DownloadInv'
  OBVIOUS
<1> USE DEF DownloadInv
<1>1. EventsFit' /\ queue' \in Seq(Event) /\ Len(queue') <= QueueSize
  <2>1. Post(Signal("CONNECTED"))
    BY DEF Connect
  <2> QED BY <2>1, EventsAre, PostFits
<1>2. ServerType'
  BY <1>1 DEF Connect, TypeOK, ServerType
<1>3. DownloadType' /\ WriterType'
  BY DEF Connect, TypeOK, DownloadType, WriterType, writer
<1>4. HistoryType'
  BY DEF Connect, TypeOK, HistoryType
<1>5. session' = session + 1 /\ download' = download /\ session \in Nat /\ download.session \in Nat
  BY DEF Connect, TypeOK, HistoryType, DownloadType, Download
<1>6. ChunksAreOurs' /\ TopicWhileDownloading' /\ download'.session <= session'
  BY <1>5 DEF ChunksAreOurs, TopicWhileDownloading
<1> QED BY <1>1, <1>2, <1>3, <1>4, <1>6 DEF TypeOK

LEMMA DisconnectInv == DownloadInv /\ Disconnect => DownloadInv'
<1> SUFFICES ASSUME DownloadInv, Disconnect PROVE DownloadInv'
  OBVIOUS
<1> USE DEF DownloadInv
<1>1. EventsFit' /\ queue' \in Seq(Event) /\ Len(queue') <= QueueSize
  <2>1. Post(Signal("DISCONNECTED"))
    BY DEF Disconnect
  <2> QED BY <2>1, EventsAre, PostFits
<1>2. ServerType'
  BY <1>1 DEF Disconnect, TypeOK, ServerType
<1>3. DownloadType' /\ WriterType' /\ HistoryType'
  BY DEF Disconnect, TypeOK, DownloadType, WriterType, HistoryType, writer, bounds
<1>4. ChunksAreOurs' /\ TopicWhileDownloading' /\ download'.session <= session'
  <2>1. UNCHANGED <<download, session>> /\ connected' = FALSE
    BY DEF Disconnect, bounds
  <2> QED BY <2>1, DownloadStays
<1> QED BY <1>1, <1>2, <1>3, <1>4 DEF TypeOK

LEMMA AnnounceInv == ASSUME DownloadInv, NEW v \in Version, Announce(v) PROVE DownloadInv'
<1> USE DEF DownloadInv
<1>1. EventsFit' /\ queue' \in Seq(Event) /\ Len(queue') <= QueueSize
  <2>1. CASE Post(News(v))
    BY <2>1, EventsAre, PostFits
  <2>2. CASE UNCHANGED queue
    BY <2>2 DEF TypeOK, ServerType, EventsFit
  <2> QED BY <2>1, <2>2 DEF Announce
<1>2. ServerType'
  BY <1>1 DEF Announce, TypeOK, ServerType
<1>3. DownloadType' /\ WriterType' /\ HistoryType'
  BY DEF Announce, TypeOK, DownloadType, WriterType, HistoryType, writer
<1>4. ChunksAreOurs' /\ TopicWhileDownloading' /\ download'.session <= session'
  BY DownloadStays DEF Announce
<1> QED BY <1>1, <1>2, <1>3, <1>4 DEF TypeOK

LEMMA AnswerAttributesInv == DownloadInv /\ AnswerAttributes => DownloadInv'
<1> SUFFICES ASSUME DownloadInv, AnswerAttributes PROVE DownloadInv'
  OBVIOUS
<1> USE DEF DownloadInv
<1>1. EventsFit' /\ queue' \in Seq(Event) /\ Len(queue') <= QueueSize
  <2>1. Post(Reply(target)) /\ target \in Version
    BY DEF AnswerAttributes, TypeOK, ServerType
  <2> QED BY <2>1, EventsAre, PostFits
<1>2. ServerType'
  BY <1>1 DEF AnswerAttributes, TypeOK, ServerType
<1>3. DownloadType' /\ WriterType' /\ HistoryType'
  BY DEF AnswerAttributes, TypeOK, DownloadType, WriterType, HistoryType, writer, bounds
<1>4. ChunksAreOurs' /\ TopicWhileDownloading' /\ download'.session <= session'
  BY DownloadStays DEF AnswerAttributes, bounds
<1> QED BY <1>1, <1>2, <1>3, <1>4 DEF TypeOK

LEMMA AnswerChunkInv == ASSUME DownloadInv, NEW q \in asked, AnswerChunk(q) PROVE DownloadInv'
<1> USE DEF DownloadInv
<1> DEFINE e == [type |-> "chunk", request_id |-> q.request_id, chunk_id |-> q.chunk_id,
                 payload |-> ChunkOf(target, q.chunk_id)]
<1>1. target \in Version /\ q.request_id \in Nat /\ q.chunk_id \in Nat
      /\ asked \subseteq [request_id : Nat, chunk_id : Nat]
  BY DEF TypeOK, ServerType
<1>2. EventsFit' /\ queue' \in Seq(Event) /\ Len(queue') <= QueueSize
  <2>1. Post(e)
    BY DEF AnswerChunk
  <2>2. e \in Event /\ (e.payload # NULL => e.payload.index = e.chunk_id)
    BY <1>1, ChunkOfIs DEF Event
  <2> HIDE DEF e
  <2> QED BY <2>1, <2>2, PostFits
<1>3. ServerType'
  BY <1>1, <1>2 DEF AnswerChunk, TypeOK, ServerType
<1>4. DownloadType' /\ WriterType' /\ HistoryType'
  BY DEF AnswerChunk, TypeOK, DownloadType, WriterType, HistoryType, writer, bounds
<1>5. ChunksAreOurs' /\ TopicWhileDownloading' /\ download'.session <= session'
  BY DownloadStays DEF AnswerChunk, bounds
<1> QED BY <1>2, <1>3, <1>4, <1>5 DEF TypeOK

LEMMA AgeIs ==
  ASSUME NEW d \in Download, NEW a \in 0..TB_MQTT_TIMEOUT
  PROVE  [d EXCEPT !.age = a] \in Download
BY DEF Download

LEMMA TickInv == DownloadInv /\ Tick => DownloadInv'
<1> SUFFICES ASSUME DownloadInv, Tick PROVE DownloadInv'
  OBVIOUS
<1> USE DEF DownloadInv
<1>1. download \in Download /\ download.age < TB_MQTT_TIMEOUT
      /\ download' = [download EXCEPT !.age = @ + 1]
  BY DEF Tick, TypeOK, DownloadType
<1>2. /\ download' \in Download /\ download'.request_id = download.request_id
      /\ download'.session = download.session /\ download'.from = download.from
      /\ download'.chunk_id = download.chunk_id /\ download'.checksum = download.checksum
  <2>1. download.age + 1 \in 0..TB_MQTT_TIMEOUT
    <3>1. download.age \in 0..TB_MQTT_TIMEOUT
      BY <1>1 DEF Download
    <3> QED BY <1>1, <3>1, OtaAssumption
  <2>2. download' \in Download
    <3>1. download' = [download EXCEPT !.age = download.age + 1]
      BY <1>1
    <3> QED BY <1>1, <2>1, <3>1, AgeIs
  <2>3. /\ download'.request_id = download.request_id /\ download'.session = download.session
        /\ download'.from = download.from
    BY <1>1 DEF Download
  <2>4. download'.chunk_id = download.chunk_id /\ download'.checksum = download.checksum
    BY <1>1 DEF Download
  <2> QED BY <2>2, <2>3, <2>4
<1>3. ServerType' /\ EventsFit'
  BY DEF Tick, TypeOK, ServerType, EventsFit, server
<1>4. DownloadType' /\ WriterType' /\ HistoryType'
  BY <1>2 DEF Tick, TypeOK, DownloadType, WriterType, HistoryType, writer, bounds
<1>5. ChunksAreOurs' /\ TopicWhileDownloading' /\ download'.session <= session'
  BY <1>2 DEF Tick, ChunksAreOurs, TopicWhileDownloading, server, bounds
<1> QED BY <1>3, <1>4, <1>5 DEF TypeOK

-----------------------------------------------------------------------------
(* The task that calls tbcmh_run.                                          *)

LEMMA OnConnectedInv == DownloadInv /\ OnConnected => DownloadInv'
<1> SUFFICES ASSUME DownloadInv, OnConnected PROVE DownloadInv'
  OBVIOUS
<1> USE DEF DownloadInv
<1>1. EventsFit' /\ queue' \in Seq(Event) /\ Len(queue') <= QueueSize
  BY ReceiveFits DEF OnConnected
<1>2. connected \in BOOLEAN /\ watching \in BOOLEAN /\ requested \in BOOLEAN /\ watchers \in Nat
  BY DEF TypeOK, ServerType, DownloadType
<1>3. watching' \in BOOLEAN /\ requested' \in BOOLEAN /\ watchers' \in Nat
  <2>1. watchers' \in Nat
    BY <1>2 DEF OnConnected
  <2>2. watching' \in BOOLEAN
    <3>1. watching' = (watching \/ (connected /\ watchers > 0))
          \/ watching' = (watching \/ (connected /\ watchers' > 0))
      BY DEF OnConnected
    <3> QED BY <3>1
  <2>3. requested' \in {connected, requested}
    BY DEF OnConnected
  <2> QED BY <1>2, <2>1, <2>2, <2>3
<1>4. ServerType'
  BY <1>1, <1>3 DEF OnConnected, TypeOK, ServerType
<1>5. DownloadType' /\ WriterType' /\ HistoryType'
  BY <1>3 DEF OnConnected, TypeOK, DownloadType, WriterType, HistoryType, writer, bounds
<1>6. ChunksAreOurs' /\ TopicWhileDownloading' /\ download'.session <= session'
  BY DownloadStays DEF OnConnected, bounds
<1> QED BY <1>1, <1>4, <1>5, <1>6 DEF TypeOK

\* A step that may end the download, and does nothing else to it.
LEMMA TimedOutInv ==
  ASSUME DownloadInv, EventsFit', queue' \in Seq(Event), Len(queue') <= QueueSize,
         Fail(download, fwupdate) \/ UNCHANGED <<fwupdate, download, topic, rebooting>>,
         UNCHANGED <<target, connected, watching, requested, asked, entries, drawn, watchers,
                     news, notify, flash, boot, running, announced, bounds>>
  PROVE  DownloadInv'
<1> USE DEF DownloadInv
<1>1. /\ download' = NoDownload \/ UNCHANGED <<download, topic>>
      /\ fwupdate' \in WriterState /\ topic' \in BOOLEAN /\ rebooting' = rebooting
  <2>1. download \in Download /\ fwupdate \in WriterState /\ topic \in BOOLEAN
    BY DEF TypeOK, DownloadType, WriterType, WriterState, ServerType
  <2> QED BY <2>1, FailIs
<1>2. UNCHANGED <<announcements, session, crashes>>
  BY DEF bounds
<1>3. ServerType'
  BY <1>1 DEF TypeOK, ServerType
<1>4. DownloadType'
  BY <1>1, NoDownloadIs DEF TypeOK, DownloadType
<1>5. WriterType' /\ HistoryType'
  BY <1>1, <1>2 DEF TypeOK, WriterType, WriterState, HistoryType
<1>6. ChunksAreOurs' /\ TopicWhileDownloading' /\ download'.session <= session'
  BY <1>1, <1>2, DownloadStays, DownloadGoes
<1> QED BY <1>3, <1>4, <1>5, <1>6 DEF TypeOK

LEMMA OnDisconnectedInv == DownloadInv /\ OnDisconnected => DownloadInv'
<1> SUFFICES ASSUME DownloadInv, OnDisconnected PROVE DownloadInv'
  OBVIOUS
<1>1. EventsFit' /\ queue' \in Seq(Event) /\ Len(queue') <= QueueSize
  BY ReceiveFits DEF OnDisconnected, DownloadInv
<1>2. Fail(download, fwupdate) \/ UNCHANGED <<fwupdate, download, topic, rebooting>>
  BY DEF OnDisconnected
<1>3. UNCHANGED <<target, connected, watching, requested, asked, entries, drawn, watchers,
                  news, notify, flash, boot, running, announced, bounds>>
  BY DEF OnDisconnected
<1> QED BY <1>1, <1>2, <1>3, TimedOutInv

LEMMA OnChunkCheckTimeoutInv == DownloadInv /\ OnChunkCheckTimeout => DownloadInv'
<1> SUFFICES ASSUME DownloadInv, OnChunkCheckTimeout PROVE DownloadInv'
  OBVIOUS
<1>1. EventsFit' /\ queue' \in Seq(Event) /\ Len(queue') <= QueueSize
  BY DEF OnChunkCheckTimeout, DownloadInv, EventsFit, TypeOK, ServerType
<1>2. UNCHANGED <<target, connected, watching, requested, asked, entries, drawn, watchers,
                  news, notify, flash, boot, running, announced, bounds>>
  BY DEF OnChunkCheckTimeout
<1> QED BY <1>1, <1>2, TimedOutInv DEF OnChunkCheckTimeout

LEMMA OnAttributesInv == DownloadInv /\ OnAttributes => DownloadInv'
<1> SUFFICES ASSUME DownloadInv, OnAttributes PROVE DownloadInv'
  OBVIOUS
<1> USE DEF DownloadInv
<1>1. /\ EventsFit' /\ queue' \in Seq(Event) /\ Len(queue') <= QueueSize
      /\ news' \in Version /\ notify' \in Nat
  <2>1. PICK type \in {"attributes update", "attributes response"} : Receive(type)
    BY DEF OnAttributes
  <2>2. Head(queue) \in Event /\ Head(queue).type = type /\ news' = Head(queue).version
    BY <2>1, ReceiveFits DEF OnAttributes
  <2>3. Head(queue).version \in Version
    BY <2>2 DEF Event
  <2>4. watchers \in Nat
    BY DEF TypeOK, DownloadType
  <2>5. EventsFit' /\ queue' \in Seq(Event) /\ Len(queue') <= QueueSize
    BY <2>1, ReceiveFits
  <2>6. notify' \in Nat
    <3>1. notify' = watchers \/ notify' = 1
      BY DEF OnAttributes
    <3>2. 1 \in Nat
      OBVIOUS
    <3> QED BY <2>4, <3>1, <3>2
  <2> QED BY <2>2, <2>3, <2>5, <2>6
<1>2. news' # NULL
  BY <1>1, OtaAssumption
<1>3. ServerType'
  BY <1>1 DEF OnAttributes, TypeOK, ServerType, server
<1>4. DownloadType' /\ WriterType' /\ HistoryType'
  BY <1>1, <1>2 DEF OnAttributes, TypeOK, DownloadType, WriterType, HistoryType, writer, bounds
<1>5. ChunksAreOurs' /\ TopicWhileDownloading' /\ download'.session <= session'
  BY DownloadStays DEF OnAttributes, server, bounds
<1> QED BY <1>1, <1>3, <1>4, <1>5 DEF TypeOK

\* A download that negotiation begins.
LEMMA BegunIs ==
  ASSUME TypeOK, news \in Version, NEW checksum \in {news, NULL},
         NEW d, d = [NoDownload EXCEPT !.request_id = drawn + 1, !.ota_size = Size[news],
                                       !.ota_checksum = checksum, !.session = session]
  PROVE  /\ d \in Download /\ d.session = session /\ d.from = {}
         /\ d.chunk_id = 0 /\ d.checksum = << >>
<1>1. drawn + 1 \in Nat /\ session \in Nat /\ Size[news] \in Nat /\ checksum \in Version \cup {NULL}
  BY OtaAssumption DEF TypeOK, DownloadType, HistoryType
<1> QED BY <1>1, NoDownloadIs DEF NoDownload, Download

LEMMA NegotiateInv == DownloadInv /\ Negotiate => DownloadInv'
<1> SUFFICES ASSUME DownloadInv, Negotiate PROVE DownloadInv'
  OBVIOUS
<1> USE DEF DownloadInv
<1>1. /\ notify > 0 /\ notify' = notify - 1 /\ news' = (IF notify = 1 THEN NULL ELSE news)
      /\ notify \in Nat /\ news \in Version /\ drawn \in Nat
      /\ connected \in BOOLEAN /\ topic \in BOOLEAN /\ fwupdate \in WriterState
  <2>1. notify > 0 /\ notify' = notify - 1 /\ news' = (IF notify = 1 THEN NULL ELSE news)
    BY DEF Negotiate
  <2> QED BY <2>1 DEF TypeOK, DownloadType, ServerType, WriterType, WriterState
<1>2. UNCHANGED <<target, connected, watching, requested, queue, entries, watchers,
                  flash, boot, running, announced, bounds>>
  BY DEF Negotiate
<1>3. /\ topic' \in BOOLEAN /\ asked' \subseteq [request_id : Nat, chunk_id : Nat]
      /\ download' \in Download /\ drawn' \in Nat /\ fwupdate' \in WriterState
      /\ rebooting' = rebooting
      /\ ChunksAreOurs' /\ TopicWhileDownloading' /\ download'.session <= session'
  <2>1. session' = session /\ session \in Nat
    BY <1>2 DEF bounds, TypeOK, HistoryType
  <2>2. CASE UNCHANGED <<topic, asked, download, drawn, fwupdate, rebooting>>
    <3>1. asked \subseteq [request_id : Nat, chunk_id : Nat] /\ download \in Download
      BY DEF TypeOK, ServerType, DownloadType
    <3> QED BY <1>1, <1>2, <2>1, <2>2, <3>1, DownloadStays
  <2>3. CASE download' = NoDownload /\ UNCHANGED <<topic, asked, drawn, fwupdate, rebooting>>
    <3>1. asked \subseteq [request_id : Nat, chunk_id : Nat]
      BY DEF TypeOK, ServerType
    <3> QED BY <1>1, <2>1, <2>3, <3>1, DownloadGoes, NoDownloadIs
  <2>4. ASSUME NEW checksum \in {news, NULL}, drawn' = drawn + 1, NEW d,
               d = [NoDownload EXCEPT !.request_id = drawn + 1, !.ota_size = Size[news],
                                      !.ota_checksum = checksum, !.session = session],
               ChunkRequest(d, fwupdate, topic \/ connected)
        PROVE  /\ topic' \in BOOLEAN /\ asked' \subseteq [request_id : Nat, chunk_id : Nat]
               /\ download' \in Download /\ drawn' \in Nat /\ fwupdate' \in WriterState
               /\ rebooting' = rebooting
               /\ ChunksAreOurs' /\ TopicWhileDownloading' /\ download'.session <= session'
    <3>1. /\ d \in Download /\ d.session = session /\ d.from = {}
          /\ d.chunk_id = 0 /\ d.checksum = << >>
      BY <1>1, <2>4, BegunIs
    <3>2. (topic \/ connected) \in BOOLEAN
      BY <1>1
    <3>3. /\ \/ download' = [d EXCEPT !.age = 0] /\ topic' = (topic \/ connected)
             \/ download' = NoDownload
          /\ download' \in Download /\ fwupdate' \in WriterState
          /\ topic' \in BOOLEAN /\ rebooting' = rebooting
          /\ asked' \subseteq [request_id : Nat, chunk_id : Nat]
      BY <1>1, <2>4, <3>1, <3>2, ChunkRequestIs
    <3>4. ChunksAreOurs' /\ TopicWhileDownloading' /\ download'.session <= session'
      <4>1. CASE download' = NoDownload
        BY <2>1, <4>1, DownloadGoes
      <4>2. CASE download' = [d EXCEPT !.age = 0] /\ topic' = (topic \/ connected)
        <5>1. /\ download'.from = {} /\ download'.chunk_id = 0 /\ download'.checksum = << >>
              /\ download'.session = session
          BY <3>1, <4>2 DEF Download
        <5>2. Len(download'.checksum) = 0
          BY <5>1
        <5>3. ChunksAreOurs'
          BY <5>1, <5>2 DEF ChunksAreOurs
        <5>4. connected' => topic'
          BY <1>2, <4>2
        <5> QED BY <2>1, <5>1, <5>3, <5>4 DEF TopicWhileDownloading
      <4> QED BY <3>3, <4>1, <4>2
    <3> QED BY <1>1, <2>4, <3>3, <3>4
  <2>5. \/ UNCHANGED <<topic, asked, download, drawn, fwupdate, rebooting>>
        \/ download' = NoDownload /\ UNCHANGED <<topic, asked, drawn, fwupdate, rebooting>>
        \/ /\ drawn' = drawn + 1
           /\ \E checksum \in {news, NULL} :
                ChunkRequest([NoDownload EXCEPT !.request_id = drawn + 1, !.ota_size = Size[news],
                                                !.ota_checksum = checksum, !.session = session],
                             fwupdate, topic \/ connected)
    <3>1. ASSUME NEW checksum
          PROVE  [[NoDownload EXCEPT !.request_id = drawn + 1, !.ota_size = Size[news],
                                     !.ota_checksum = news, !.session = session]
                    EXCEPT !.ota_checksum = checksum]
                 = [NoDownload EXCEPT !.request_id = drawn + 1, !.ota_size = Size[news],
                                      !.ota_checksum = checksum, !.session = session]
      BY DEF NoDownload
    <3> QED BY <3>1 DEF Negotiate
  <2> QED BY <2>2, <2>3, <2>4, <2>5
<1>4. EventsFit' /\ ServerType'
  BY <1>2, <1>3 DEF EventsFit, TypeOK, ServerType
<1>5. DownloadType'
  BY <1>1, <1>2, <1>3 DEF TypeOK, DownloadType
<1>6. WriterType' /\ HistoryType'
  BY <1>2, <1>3 DEF TypeOK, WriterType, WriterState, HistoryType, bounds
<1> QED BY <1>3, <1>4, <1>5, <1>6 DEF TypeOK

LEMMA OnChunkDataInv == DownloadInv /\ OnChunkData => DownloadInv'
<1> SUFFICES ASSUME DownloadInv, OnChunkData PROVE DownloadInv'
  OBVIOUS
<1> USE DEF DownloadInv
<1> DEFINE e == Head(queue)
<1>1. /\ EventsFit' /\ queue' \in Seq(Event) /\ Len(queue') <= QueueSize
      /\ e \in Event /\ e.type = "chunk"
      /\ e.payload # NULL => e.payload.index = e.chunk_id
  <2>1. Receive("chunk")
    BY DEF OnChunkData
  <2> QED BY <2>1, ReceiveFits
<1>2. e.request_id \in Nat /\ e.payload \in Chunk \cup {NULL}
  BY <1>1 DEF Event
<1>3. UNCHANGED <<target, connected, watching, requested, entries, drawn, watchers,
                  news, notify, running, bounds>>
  BY DEF OnChunkData
<1>4. /\ fwupdate \in WriterState /\ flash \in [Partition -> Seq(Chunk)] /\ topic \in BOOLEAN
      /\ asked \subseteq [request_id : Nat, chunk_id : Nat] /\ rebooting \in BOOLEAN
      /\ boot \in Partition /\ announced \in Version /\ download \in Download
  BY DEF TypeOK, WriterType, WriterState, ServerType, HistoryType, DownloadType
<1>5. session' = session
  BY <1>3 DEF bounds
<1> DEFINE Goal ==
      /\ topic' \in BOOLEAN /\ asked' \subseteq [request_id : Nat, chunk_id : Nat]
      /\ download' \in Download /\ fwupdate' \in WriterState
      /\ rebooting' \in BOOLEAN /\ flash' \in [Partition -> Seq(Chunk)]
      /\ boot' \in Partition /\ announced' \in Version
      /\ ChunksAreOurs' /\ TopicWhileDownloading' /\ download'.session <= session'
<1>6. Goal
  <2>1. CASE UNCHANGED <<topic, asked, download, fwupdate, flash, boot, rebooting, announced>>
    BY <1>3, <1>4, <1>5, <2>1, DownloadStays
  <2>2. CASE Fail(download, fwupdate) /\ UNCHANGED <<asked, flash, boot, announced>>
    BY <1>4, <1>5, <2>2, FailIs, NoDownloadIs, DownloadGoes
  <2>3. ASSUME ChunkFits(e), download.request_id = e.request_id,
               NEW o \in WriteOutcome, NEW d,
               d = [download EXCEPT !.chunk_id = @ + 1,
                                    !.checksum = Append(@, e.payload),
                                    !.from = @ \cup {e.request_id}],
               flash' = [flash EXCEPT ![Update] = ContentAfter(o, e.payload)],
               \/ /\ o # "written"
                  /\ Fail(download, WriterAfter(o))
                  /\ UNCHANGED <<asked, boot, announced>>
               \/ /\ o = "written" /\ Len(d.checksum) >= d.ota_size
                  /\ Finish(d, WriterAfter(o), ContentAfter(o, e.payload))
                  /\ UNCHANGED asked
               \/ /\ o = "written" /\ Len(d.checksum) < d.ota_size
                  /\ ChunkRequest(d, WriterAfter(o), topic)
                  /\ UNCHANGED <<boot, announced>>
        PROVE  Goal
    <3>1. e.payload \in Chunk /\ e.chunk_id = download.chunk_id /\ e.payload.index = e.chunk_id
      BY <1>1, <1>2, <2>3 DEF ChunkFits
    <3>2. WriterAfter(o) \in WriterState /\ ContentAfter(o, e.payload) \in Seq(Chunk)
      BY <3>1, WriteIs
    <3>3. flash' \in [Partition -> Seq(Chunk)]
      BY <1>4, <2>3, <3>2
    <3>4. /\ d \in Download /\ d.request_id = download.request_id /\ d.session = download.session
          /\ d.chunk_id = download.chunk_id + 1 /\ d.checksum = Append(download.checksum, e.payload)
          /\ d.from = download.from \cup {e.request_id}
      <4>1. /\ download.chunk_id + 1 \in Nat /\ Append(download.checksum, e.payload) \in Seq(Chunk)
            /\ download.from \cup {e.request_id} \in SUBSET Nat
        BY <1>2, <1>4, <3>1 DEF Download
      <4> QED BY <1>4, <2>3, <4>1 DEF Download
    <3>5. CASE Fail(download, WriterAfter(o)) /\ UNCHANGED <<asked, boot, announced>>
      BY <1>4, <1>5, <3>2, <3>3, <3>5, FailIs, NoDownloadIs, DownloadGoes
    <3>6. CASE Finish(d, WriterAfter(o), ContentAfter(o, e.payload)) /\ UNCHANGED asked
      BY <1>4, <1>5, <3>2, <3>3, <3>4, <3>6, FinishIs, NoDownloadIs, DownloadGoes
    <3>7. CASE ChunkRequest(d, WriterAfter(o), topic) /\ UNCHANGED <<boot, announced>>
      <4>1. /\ (download' = [d EXCEPT !.age = 0] /\ topic' = topic) \/ download' = NoDownload
            /\ download' \in Download /\ fwupdate' \in WriterState
            /\ topic' \in BOOLEAN /\ rebooting' = rebooting
            /\ asked' \subseteq [request_id : Nat, chunk_id : Nat]
        BY <1>4, <3>2, <3>4, <3>7, ChunkRequestIs
      <4>2. ChunksAreOurs' /\ TopicWhileDownloading' /\ download'.session <= session'
        <5>1. CASE download' = NoDownload
          BY <1>5, <5>1, DownloadGoes
        <5>2. CASE download' = [d EXCEPT !.age = 0] /\ topic' = topic
          <6>1. /\ download'.request_id = download.request_id
                /\ download'.session = download.session
                /\ download'.chunk_id = download.chunk_id + 1
                /\ download'.checksum = Append(download.checksum, e.payload)
                /\ download'.from = download.from \cup {e.request_id}
            BY <3>4, <5>2 DEF Download
          <6>2. download.checksum \in Seq(Chunk) /\ download.chunk_id = Len(download.checksum)
            BY <1>4 DEF Download, ChunksAreOurs
          <6>3. ASSUME NEW i \in 1..Len(download'.checksum)
                PROVE  download'.checksum[i].index = i - 1
            <7>1. CASE i <= Len(download.checksum)
              <8>1. i \in 1..Len(download.checksum) /\ download'.checksum[i] = download.checksum[i]
                BY <3>1, <6>1, <6>2, <6>3, <7>1
              <8> QED BY <8>1 DEF ChunksAreOurs
            <7>2. CASE i > Len(download.checksum)
              BY <3>1, <6>1, <6>2, <6>3, <7>2
            <7> QED BY <6>1, <6>2, <6>3, <7>1, <7>2
          <6>4. Len(download'.checksum) = download'.chunk_id
            BY <3>1, <6>1, <6>2
          <6>5. download'.from \subseteq {download'.request_id}
            BY <2>3, <6>1 DEF ChunksAreOurs
          <6>6. TopicWhileDownloading' /\ download'.session <= session'
            BY <1>3, <1>5, <5>2, <6>1 DEF TopicWhileDownloading
          <6> QED BY <6>3, <6>4, <6>5, <6>6 DEF ChunksAreOurs
        <5> QED BY <4>1, <5>1, <5>2
      <4> QED BY <1>4, <3>3, <3>7, <4>1, <4>2
    <3> QED BY <2>3, <3>5, <3>6, <3>7
  <2>4. CASE Accept(e) /\ entries > 0 /\ e.request_id = download.request_id
    BY <2>2, <2>3, <2>4 DEF Accept
  <2> QED BY <2>1, <2>4 DEF OnChunkData
<1> HIDE DEF e
<1>7. ServerType'
  BY <1>1, <1>3, <1>6 DEF TypeOK, ServerType
<1>8. DownloadType'
  BY <1>3, <1>6 DEF TypeOK, DownloadType
<1>9. WriterType'
  BY <1>3, <1>6 DEF TypeOK, WriterType, WriterState
<1>10. HistoryType'
  BY <1>3, <1>6 DEF TypeOK, HistoryType, bounds
<1> QED BY <1>1, <1>6, <1>7, <1>8, <1>9, <1>10 DEF TypeOK

-----------------------------------------------------------------------------
(* The application.                                                        *)

LEMMA SubscribeInv == DownloadInv /\ tbcmh_otaupdate_subscribe => DownloadInv'
<1> SUFFICES ASSUME DownloadInv, tbcmh_otaupdate_subscribe PROVE DownloadInv'
  OBVIOUS
<1> USE DEF DownloadInv
<1>1. Closed \in WriterState /\ fwupdate' = Closed
  BY DEF Closed, WriterState, tbcmh_otaupdate_subscribe
<1>2. ServerType' /\ EventsFit'
  BY DEF tbcmh_otaupdate_subscribe, TypeOK, ServerType, EventsFit, server
<1>3. DownloadType' /\ HistoryType'
  BY DEF tbcmh_otaupdate_subscribe, TypeOK, DownloadType, HistoryType, bounds
<1>4. WriterType'
  BY <1>1 DEF tbcmh_otaupdate_subscribe, TypeOK, WriterType, WriterState
<1>5. ChunksAreOurs' /\ TopicWhileDownloading' /\ download'.session <= session'
  BY DownloadStays DEF tbcmh_otaupdate_subscribe, server, bounds
<1> QED BY <1>2, <1>3, <1>4, <1>5 DEF TypeOK

LEMMA UnsubscribeInv == DownloadInv /\ tbcmh_otaupdate_unsubscribe => DownloadInv'
<1> SUFFICES ASSUME DownloadInv, tbcmh_otaupdate_unsubscribe PROVE DownloadInv'
  OBVIOUS
<1> USE DEF DownloadInv
<1>1. download' = NoDownload \/ download' = download
  BY DEF tbcmh_otaupdate_unsubscribe
<1>2. UNCHANGED <<connected, topic, session>>
  BY DEF tbcmh_otaupdate_unsubscribe, server, bounds
<1>3. ServerType' /\ EventsFit'
  BY DEF tbcmh_otaupdate_unsubscribe, TypeOK, ServerType, EventsFit, server
<1>4. DownloadType'
  <2>1. entries' \in 0..MaxEntries /\ download' \in Download
    BY <1>1, NoDownloadIs, OtaAssumption
    DEF tbcmh_otaupdate_unsubscribe, TypeOK, DownloadType
  <2> QED BY <2>1 DEF tbcmh_otaupdate_unsubscribe, TypeOK, DownloadType
<1>5. WriterType' /\ HistoryType'
  BY DEF tbcmh_otaupdate_unsubscribe, TypeOK, WriterType, HistoryType, writer, bounds
<1>6. ChunksAreOurs' /\ TopicWhileDownloading' /\ download'.session <= session'
  <2>1. connected' => connected /\ (topic => topic')
    BY <1>2
  <2> QED BY <1>1, <1>2, <2>1, DownloadStays, DownloadGoes
<1> QED BY <1>3, <1>4, <1>5, <1>6 DEF TypeOK

LEMMA RestartInv == DownloadInv /\ Restart => DownloadInv'
<1> SUFFICES ASSUME DownloadInv, Restart PROVE DownloadInv'
  OBVIOUS
<1> USE DEF DownloadInv
<1>1. << >> \in Seq(Event) /\ Len(<< >>) = 0 /\ 0 \in 0..MaxEntries
  BY OtaAssumption
<1>2. ServerType'
  <2>1. connected' \in BOOLEAN /\ topic' \in BOOLEAN /\ watching' \in BOOLEAN
        /\ requested' \in BOOLEAN
    BY Zenon DEF Restart
  <2>2. queue' = << >> /\ target' = target /\ asked' = asked
    BY DEF Restart
  <2>3. queue' \in Seq(Event) /\ Len(queue') <= QueueSize
    BY <1>1, <2>2, OtaAssumption
  <2> QED BY <2>1, <2>2, <2>3 DEF TypeOK, ServerType
<1>3. EventsFit'
  BY <1>1 DEF Restart, EventsFit
<1>4. DownloadType'
  BY <1>1, NoDownloadIs DEF Restart, DownloadType
<1>5. WriterType'
  <2>1. running' \in {boot, Other(boot)} /\ boot' = running' /\ fwupdate' = Closed /\ flash' = flash
    BY DEF Restart
  <2>2. boot \in Partition /\ Closed \in WriterState
    BY DEF TypeOK, WriterType, Closed, WriterState
  <2> QED BY <2>1, <2>2, OtherIs DEF TypeOK, WriterType, WriterState
<1>6. HistoryType'
  <2>1. rebooting' \in BOOLEAN
    BY Zenon DEF Restart
  <2>2. crashes' = crashes \/ crashes' = crashes + 1
    BY DEF Restart
  <2>3. announcements' = announcements /\ session' = session /\ announced' = announced
    BY DEF Restart
  <2> QED BY <2>1, <2>2, <2>3 DEF TypeOK, HistoryType
<1>7. ChunksAreOurs' /\ TopicWhileDownloading' /\ download'.session <= session'
  BY DownloadGoes DEF Restart
<1> QED BY <1>2, <1>3, <1>4, <1>5, <1>6, <1>7 DEF TypeOK

LEMMA StutterInv == DownloadInv /\ UNCHANGED vars => DownloadInv'
<1> SUFFICES ASSUME DownloadInv, UNCHANGED vars PROVE DownloadInv'
  OBVIOUS
<1> USE DEF DownloadInv, vars, server, writer, bounds
<1>1. ServerType' /\ EventsFit'
  BY DEF TypeOK, ServerType, EventsFit
<1>2. DownloadType'
  BY DEF TypeOK, DownloadType
<1>3. WriterType' /\ HistoryType'
  BY DEF TypeOK, WriterType, HistoryType
<1>4. ChunksAreOurs' /\ TopicWhileDownloading' /\ download'.session <= session'
  BY DEF ChunksAreOurs, TopicWhileDownloading
<1> QED BY <1>1, <1>2, <1>3, <1>4 DEF TypeOK

LEMMA DownloadStep == DownloadInv /\ [Next]_vars => DownloadInv'
<1> SUFFICES ASSUME DownloadInv, [Next]_vars PROVE DownloadInv'
  OBVIOUS
<1>1. CASE Environment
  BY <1>1, ConnectInv, DisconnectInv, AnnounceInv, AnswerAttributesInv, AnswerChunkInv, TickInv
  DEF Environment
<1>2. CASE Run
  BY <1>2, OnConnectedInv, OnDisconnectedInv, OnAttributesInv, NegotiateInv, OnChunkDataInv
  DEF Run
<1> QED BY <1>1, <1>2, OnChunkCheckTimeoutInv, SubscribeInv, UnsubscribeInv, RestartInv, StutterInv
        DEF Next

-----------------------------------------------------------------------------
(* The theorems about a download.                                          *)

THEOREM DownloadInvariance == Spec => []DownloadInv
BY InitDownload, DownloadStep, PTL DEF Spec

\* The variables have their types: in particular the queue stays within its
\* capacity, and the writer and the partitions hold chunks only.
THEOREM TypeCorrect == Spec => []TypeOK
<1>1. DownloadInv => TypeOK
  BY DEF DownloadInv
<1> QED BY <1>1, DownloadInvariance, PTL

\* What a download has received are the chunks 0, 1, 2, ... that answered its
\* own requests, whatever the server sends twice, late or of another firmware.
THEOREM ChunksStayOurs == Spec => []ChunksAreOurs
<1>1. DownloadInv => ChunksAreOurs
  BY DEF DownloadInv
<1> QED BY <1>1, DownloadInvariance, PTL

\* A download of the present connection is subscribed to its chunks, after any
\* number of connections, announcements and failures.
THEOREM TopicStays == Spec => []TopicWhileDownloading
<1>1. DownloadInv => TopicWhileDownloading
  BY DEF DownloadInv
<1> QED BY <1>1, DownloadInvariance, PTL

-----------------------------------------------------------------------------
(* What the writer has seen, and what the checksum is of.                  *)

\* The two sequences end with the same chunk, unless one is empty.
SameEnd(s, t) == Len(s) > 0 /\ Len(t) > 0 => s[Len(s)] = t[Len(t)]

LEMMA SameEndEmpty ==
  ASSUME NEW s \in Seq(Chunk)
  PROVE  SameEnd(s, << >>) /\ SameEnd(<< >>, s)
<1>1. Len(<< >>) = 0
  OBVIOUS
<1> QED BY <1>1 DEF SameEnd

LEMMA SameEndAppend ==
  ASSUME NEW s \in Seq(Chunk), NEW t \in Seq(Chunk), NEW c \in Chunk
  PROVE  SameEnd(Append(s, c), Append(t, c))
<1>1. /\ Append(s, c)[Len(Append(s, c))] = c
      /\ Append(t, c)[Len(Append(t, c))] = c
  OBVIOUS
<1> QED BY <1>1 DEF SameEnd

\* Images that end with the same chunk are one, for a chunk names its firmware.
LEMMA SameImage ==
  ASSUME NEW u \in Version, NEW v \in Version, SameEnd(Image(u), Image(v))
  PROVE  u = v
<1>1. /\ Len(Image(u)) = Size[u] /\ Size[u] \in Nat \ {0}
      /\ Len(Image(v)) = Size[v] /\ Size[v] \in Nat \ {0}
      /\ Image(u)[Size[u]] = [version |-> u, index |-> Size[u] - 1]
      /\ Image(v)[Size[v]] = [version |-> v, index |-> Size[v] - 1]
  <2>1. Size[u] \in 1..Size[u] /\ Size[v] \in 1..Size[v]
    BY ImageIs
  <2> QED BY <2>1, ImageIs
<1>2. [version |-> u, index |-> Size[u] - 1] = [version |-> v, index |-> Size[v] - 1]
  BY <1>1 DEF SameEnd
<1> QED BY <1>2

-----------------------------------------------------------------------------
(* The boot partition, when the restart comes before any other event.      *)

RestartsFirst == ~DrainsQueue

\* What is written until a restart is the other partition.
RunsBoot == ~rebooting => boot = running

\* No handler is left when a restart has been asked for.
Rests == rebooting => notify = 0

\* The chunks in the writer and those of the checksum.
Agrees == SameEnd(Opened.content, download.checksum)

BootInv == DownloadInv /\ BootIsAnnounced /\ RunsBoot /\ Rests /\ Agrees

LEMMA ContentIs ==
  ASSUME TypeOK
  PROVE  /\ Opened.content \in Seq(Chunk) /\ download.checksum \in Seq(Chunk)
         /\ Opened.content = IF fwupdate.image_header_was_checked THEN flash[Update] ELSE << >>
<1>1. flash[Update] \in Seq(Chunk) /\ download.checksum \in Seq(Chunk)
  BY UpdateIs DEF TypeOK, WriterType, DownloadType, Download
<1> QED BY <1>1 DEF Opened

LEMMA BootInit == Init => BootInv
<1> SUFFICES ASSUME Init PROVE BootInv
  OBVIOUS
<1>1. DownloadInv
  BY InitDownload
<1>2. "ota_0" \in Partition
  BY DEF Partition
<1>3. flash = [p \in Partition |-> IF p = "ota_0" THEN Image(Factory) ELSE << >>]
      /\ boot = "ota_0" /\ running = "ota_0" /\ announced = Factory /\ notify = 0
      /\ download = NoDownload
  BY DEF Init
<1>4. BootIsAnnounced /\ RunsBoot /\ Rests
  BY <1>2, <1>3 DEF BootIsAnnounced, RunsBoot, Rests
<1>5. Agrees
  BY <1>1, <1>3, ContentIs, NoDownloadIs, SameEndEmpty DEF Agrees, DownloadInv
<1> QED BY <1>1, <1>4, <1>5 DEF BootInv

\* A step that neither writes nor sets the boot partition, and at most resets
\* the writer or the download.
LEMMA QuietInv ==
  ASSUME BootInv, DownloadInv', UNCHANGED <<flash, boot, running, announced>>,
         rebooting' = rebooting, rebooting => notify' = 0,
         \/ UNCHANGED fwupdate /\ download'.checksum = download.checksum
         \/ download'.checksum = << >>
         \/ fwupdate' = Closed
  PROVE  BootInv'
<1>1. BootIsAnnounced' /\ RunsBoot' /\ Rests'
  BY DEF BootInv, BootIsAnnounced, RunsBoot, Rests
<1>2. /\ Opened'.content \in Seq(Chunk) /\ download'.checksum \in Seq(Chunk)
      /\ Opened'.content = IF fwupdate'.image_header_was_checked THEN flash'[Update'] ELSE << >>
  <2>1. WriterType' /\ download' \in Download
    BY DEF DownloadInv, TypeOK, DownloadType
  <2>2. flash'[Update'] \in Seq(Chunk) /\ download'.checksum \in Seq(Chunk)
    BY <2>1, OtherIs DEF WriterType, Download, Update
  <2> QED BY <2>2 DEF Opened
<1>3. CASE UNCHANGED fwupdate /\ download'.checksum = download.checksum
  <2>1. Opened' = Opened
    BY <1>3 DEF Opened, Update
  <2> QED BY <1>1, <1>3, <2>1 DEF BootInv, Agrees
<1>4. CASE download'.checksum = << >>
  BY <1>1, <1>2, <1>4, SameEndEmpty DEF BootInv, Agrees
<1>5. CASE fwupdate' = Closed
  <2>1. Opened'.content = << >>
    BY <1>2, <1>5 DEF Closed
  <2> QED BY <1>1, <1>2, <2>1, SameEndEmpty DEF BootInv, Agrees
<1> QED BY <1>3, <1>4, <1>5

\* A chunk that is received, while no restart has been asked for.
LEMMA OnChunkDataBoot == RestartsFirst /\ BootInv /\ OnChunkData => BootInv'
<1> SUFFICES ASSUME RestartsFirst, BootInv, OnChunkData PROVE BootInv'
  OBVIOUS
<1> DEFINE e == Head(queue)
<1>1. DownloadInv' /\ TypeOK /\ DownloadInv
  BY OnChunkDataInv DEF BootInv, DownloadInv
<1>2. /\ notify = 0 /\ notify' = 0 /\ ~rebooting /\ running' = running /\ boot = running
      /\ Update' = Update
  <2>1. Running /\ UNCHANGED <<notify, running>>
    BY DEF OnChunkData, Receive
  <2> QED BY <2>1 DEF Running, RestartsFirst, BootInv, RunsBoot, Update
<1>3. /\ fwupdate \in WriterState /\ download \in Download /\ rebooting \in BOOLEAN
      /\ flash \in [Partition -> Seq(Chunk)] /\ boot \in Partition
      /\ Update \in Partition /\ Update # boot
  BY <1>1, <1>2, UpdateIs
  DEF TypeOK, WriterType, WriterState, HistoryType, DownloadType
<1>4. Rests'
  BY <1>2 DEF Rests
<1>5. CASE UNCHANGED <<topic, asked, download, fwupdate, flash, boot, rebooting, announced>>
  BY <1>1, <1>2, <1>5, QuietInv
<1>6. CASE Accept(e)
  <2>1. CASE Fail(download, fwupdate) /\ UNCHANGED <<asked, flash, boot, announced>>
    BY <1>1, <1>2, <1>3, <2>1, FailIs, NoDownloadIs, QuietInv
  <2>2. ASSUME ChunkFits(e), NEW o \in WriteOutcome, NEW d,
               d = [download EXCEPT !.chunk_id = @ + 1,
                                    !.checksum = Append(@, e.payload),
                                    !.from = @ \cup {e.request_id}],
               flash' = [flash EXCEPT ![Update] = ContentAfter(o, e.payload)],
               \/ /\ o # "written"
                  /\ Fail(download, WriterAfter(o))
                  /\ UNCHANGED <<asked, boot, announced>>
               \/ /\ o = "written" /\ Len(d.checksum) >= d.ota_size
                  /\ Finish(d, WriterAfter(o), ContentAfter(o, e.payload))
                  /\ UNCHANGED asked
               \/ /\ o = "written" /\ Len(d.checksum) < d.ota_size
                  /\ ChunkRequest(d, WriterAfter(o), topic)
                  /\ UNCHANGED <<boot, announced>>
        PROVE  BootIsAnnounced' /\ RunsBoot' /\ Agrees'
    <3>1. e \in Event /\ e.type = "chunk"
      <4>1. Receive("chunk")
        BY DEF OnChunkData
      <4> QED BY <1>1, <4>1, ReceiveFits DEF DownloadInv
    <3>2. e.payload \in Chunk /\ e.request_id \in Nat
      BY <2>2, <3>1 DEF Event, ChunkFits
    <3>3. WriterAfter(o) \in WriterState /\ ContentAfter(o, e.payload) \in Seq(Chunk)
      BY <1>1, <3>2, WriteIs
    <3>4. d \in Download /\ d.checksum = Append(download.checksum, e.payload)
      <4>1. /\ download.chunk_id + 1 \in Nat /\ Append(download.checksum, e.payload) \in Seq(Chunk)
            /\ download.from \cup {e.request_id} \in SUBSET Nat
        BY <1>3, <3>2 DEF Download
      <4> QED BY <1>3, <2>2, <4>1 DEF Download
    <3>5. flash'[boot] = flash[boot] /\ flash'[Update] = ContentAfter(o, e.payload)
      BY <1>3, <2>2
    <3>6. ASSUME boot' = boot, announced' = announced, rebooting' = rebooting
          PROVE  BootIsAnnounced' /\ RunsBoot'
      BY <1>2, <3>5, <3>6 DEF BootInv, BootIsAnnounced, RunsBoot
    <3>7. ASSUME download' = NoDownload PROVE Agrees'
      <4>1. flash'[Update'] \in Seq(Chunk)
        BY <1>2, <3>3, <3>5
      <4>2. Opened'.content \in Seq(Chunk) /\ download'.checksum = << >>
        BY <3>7, <4>1, NoDownloadIs DEF Opened
      <4> QED BY <4>2, SameEndEmpty DEF Agrees
    <3>8. CASE Fail(download, WriterAfter(o)) /\ UNCHANGED <<boot, announced>>
      <4>1. download' = NoDownload /\ rebooting' = rebooting
        BY <1>1, <1>3, <3>3, <3>8, FailIs
      <4> QED BY <3>6, <3>7, <3>8, <4>1
    <3>9. CASE o = "written" /\ Finish(d, WriterAfter(o), ContentAfter(o, e.payload))
      <4>1. ContentAfter(o, e.payload) = Append(Opened.content, e.payload)
        BY <3>9 DEF ContentAfter
      <4>2. SameEnd(ContentAfter(o, e.payload), d.checksum)
        <5>1. Opened.content \in Seq(Chunk) /\ download.checksum \in Seq(Chunk)
          BY <1>1, ContentIs
        <5> QED BY <3>2, <3>4, <4>1, <5>1, SameEndAppend
      <4>3. CASE /\ Verified(d) /\ EndMaySucceed(ContentAfter(o, e.payload))
                 /\ boot' = Update /\ announced' = d.ota_checksum
                 /\ download' = NoDownload /\ DoUpdated(TRUE)
        <5>1. d.ota_checksum \in Version /\ d.checksum = Image(d.ota_checksum)
          BY <3>4, <4>3 DEF Verified, Download
        <5>2. PICK v \in Version : ContentAfter(o, e.payload) = Image(v)
          BY <4>3 DEF EndMaySucceed
        <5>3. v = d.ota_checksum
          BY <4>2, <5>1, <5>2, SameImage
        <5>4. flash'[boot'] = Image(announced')
          BY <3>5, <4>3, <5>2, <5>3
        <5>5. rebooting'
          BY <4>3 DEF DoUpdated
        <5> QED BY <3>7, <4>3, <5>4, <5>5 DEF BootIsAnnounced, RunsBoot
      <4>4. CASE Fail(d, WriterAfter(o)) /\ UNCHANGED <<boot, announced>>
        <5>1. download' = NoDownload /\ rebooting' = rebooting
          BY <1>1, <3>3, <3>4, <4>4, FailIs
        <5> QED BY <3>6, <3>7, <4>4, <5>1
      <4> QED BY <3>9, <4>3, <4>4 DEF Finish
    <3>10. CASE /\ o = "written" /\ ChunkRequest(d, WriterAfter(o), topic)
                /\ UNCHANGED <<boot, announced>>
      <4>1. /\ \/ download' = [d EXCEPT !.age = 0] /\ fwupdate' = WriterAfter(o)
               \/ download' = NoDownload
            /\ rebooting' = rebooting
        <5>1. topic \in BOOLEAN
          BY <1>1 DEF TypeOK, ServerType
        <5> QED BY <1>1, <3>3, <3>4, <3>10, <5>1, ChunkRequestIs
      <4>2. CASE download' = [d EXCEPT !.age = 0] /\ fwupdate' = WriterAfter(o)
        <5>1. download'.checksum = Append(download.checksum, e.payload)
          BY <3>4, <4>2 DEF Download
        <5>2. fwupdate'.image_header_was_checked
          BY <3>10, <4>2 DEF WriterAfter
        <5>3. Opened'.content = Append(Opened.content, e.payload)
          <6>1. Opened'.content = flash'[Update']
            BY <5>2 DEF Opened
          <6> QED BY <1>2, <3>5, <3>10, <6>1 DEF ContentAfter
        <5>4. Opened.content \in Seq(Chunk) /\ download.checksum \in Seq(Chunk)
          BY <1>1, ContentIs
        <5>5. Agrees'
          BY <3>2, <5>1, <5>3, <5>4, SameEndAppend DEF Agrees
        <5> QED BY <3>6, <3>10, <4>1, <5>5
      <4> QED BY <3>6, <3>7, <3>10, <4>1, <4>2
    <3> QED BY <2>2, <3>8, <3>9, <3>10
  <2>3. BootInv' \/ (BootIsAnnounced' /\ RunsBoot' /\ Agrees')
    BY <1>6, <2>1, <2>2 DEF Accept
  <2> QED BY <1>1, <1>4, <2>3 DEF BootInv
<1> QED BY <1>5, <1>6 DEF OnChunkData

\* A negotiation begins a download with nothing received.
LEMMA NegotiateBoot == BootInv /\ Negotiate => BootInv'
<1> SUFFICES ASSUME BootInv, Negotiate PROVE BootInv'
  OBVIOUS
<1>1. DownloadInv' /\ TypeOK /\ DownloadInv
  BY NegotiateInv DEF BootInv, DownloadInv
<1>2. UNCHANGED <<flash, boot, running, announced>> /\ notify > 0 /\ notify \in Nat
  BY <1>1 DEF Negotiate, TypeOK, DownloadType
<1>3. rebooting \in BOOLEAN /\ ~rebooting
  BY <1>1, <1>2 DEF BootInv, Rests, TypeOK, HistoryType
<1>4. /\ rebooting' = rebooting
      /\ \/ UNCHANGED fwupdate /\ download'.checksum = download.checksum
         \/ download'.checksum = << >>
  <2>1. CASE UNCHANGED <<topic, asked, download, drawn, fwupdate, rebooting>>
    BY <2>1
  <2>2. CASE download' = NoDownload /\ UNCHANGED <<topic, asked, drawn, fwupdate, rebooting>>
    BY <2>2, NoDownloadIs
  <2>3. ASSUME NEW checksum \in {news, NULL}, NEW d,
               d = [NoDownload EXCEPT !.request_id = drawn + 1, !.ota_size = Size[news],
                                      !.ota_checksum = checksum, !.session = session],
               ChunkRequest(d, fwupdate, topic \/ connected)
        PROVE  rebooting' = rebooting /\ download'.checksum = << >>
    <3>1. /\ news \in Version /\ fwupdate \in WriterState
          /\ topic \in BOOLEAN /\ connected \in BOOLEAN
      BY <1>1, <1>2 DEF TypeOK, DownloadType, ServerType, WriterType, WriterState
    <3>2. d \in Download /\ d.checksum = << >> /\ (topic \/ connected) \in BOOLEAN
      BY <1>1, <2>3, <3>1, BegunIs
    <3>3. (download' = [d EXCEPT !.age = 0] \/ download' = NoDownload) /\ rebooting' = rebooting
      BY <1>1, <2>3, <3>1, <3>2, ChunkRequestIs
    <3>4. [d EXCEPT !.age = 0].checksum = << >>
      BY <3>2 DEF Download
    <3> QED BY <3>3, <3>4, NoDownloadIs
  <2>4. \/ UNCHANGED <<topic, asked, download, drawn, fwupdate, rebooting>>
        \/ download' = NoDownload /\ UNCHANGED <<topic, asked, drawn, fwupdate, rebooting>>
        \/ \E checksum \in {news, NULL} :
             ChunkRequest([NoDownload EXCEPT !.request_id = drawn + 1, !.ota_size = Size[news],
                                             !.ota_checksum = checksum, !.session = session],
                          fwupdate, topic \/ connected)
    <3>1. ASSUME NEW checksum
          PROVE  [[NoDownload EXCEPT !.request_id = drawn + 1, !.ota_size = Size[news],
                                     !.ota_checksum = news, !.session = session]
                    EXCEPT !.ota_checksum = checksum]
                 = [NoDownload EXCEPT !.request_id = drawn + 1, !.ota_size = Size[news],
                                      !.ota_checksum = checksum, !.session = session]
      BY DEF NoDownload
    <3> QED BY <3>1 DEF Negotiate
  <2> QED BY <2>1, <2>2, <2>3, <2>4
<1> QED BY <1>1, <1>2, <1>3, <1>4, QuietInv

\* A download that times out, at a disconnection or a check.
LEMMA TimedOutBoot ==
  ASSUME BootInv, DownloadInv', UNCHANGED <<flash, boot, running, announced, notify>>,
         Fail(download, fwupdate) \/ UNCHANGED <<fwupdate, download, topic, rebooting>>
  PROVE  BootInv'
<1>1. TypeOK /\ download \in Download /\ fwupdate \in WriterState
  BY DEF BootInv, DownloadInv, TypeOK, DownloadType, WriterType, WriterState
<1>2. /\ rebooting' = rebooting
      /\ download'.checksum = << >> \/ UNCHANGED <<fwupdate, download>>
  BY <1>1, FailIs, NoDownloadIs
<1>3. rebooting => notify' = 0
  BY DEF BootInv, Rests
<1> QED BY <1>2, <1>3, QuietInv

\* The boot loader finds the image it looks for.
LEMMA RestartBoot == BootInv /\ Restart => BootInv'
<1> SUFFICES ASSUME BootInv, Restart PROVE BootInv'
  OBVIOUS
<1>1. DownloadInv' /\ announced \in Version /\ flash[boot] = Image(announced)
  BY RestartInv DEF BootInv, BootIsAnnounced, DownloadInv, TypeOK, HistoryType
<1>2. EndMaySucceed(flash[boot])
  BY <1>1 DEF EndMaySucceed
<1>3. /\ running' = boot /\ boot' = boot /\ flash' = flash /\ announced' = announced
      /\ notify' = 0 /\ download' = NoDownload /\ fwupdate' = Closed
  BY <1>2 DEF Restart
<1>4. BootIsAnnounced' /\ RunsBoot' /\ Rests'
  BY <1>1, <1>3 DEF BootIsAnnounced, RunsBoot, Rests
<1>5. Opened'.content = << >> /\ download'.checksum = << >>
  BY <1>3, NoDownloadIs DEF Opened, Closed
<1>6. << >> \in Seq(Chunk)
  OBVIOUS
<1>7. Agrees'
  BY <1>5, <1>6, SameEndEmpty DEF Agrees
<1> QED BY <1>1, <1>4, <1>7 DEF BootInv

LEMMA BootStep == RestartsFirst /\ BootInv /\ [Next]_vars => BootInv'
<1> SUFFICES ASSUME RestartsFirst, BootInv, [Next]_vars PROVE BootInv'
  OBVIOUS
<1>1. DownloadInv'
  BY DownloadStep DEF BootInv
<1>2. rebooting => notify = 0
  BY DEF BootInv, Rests
<1>3. CASE Environment
  <2>1. UNCHANGED <<flash, boot, running, announced, rebooting, notify, fwupdate>>
    BY <1>3 DEF Environment, Connect, Disconnect, Announce, AnswerAttributes, AnswerChunk, Tick, writer
  <2>2. download'.checksum = download.checksum
    <3>1. download' = download \/ download' = [download EXCEPT !.age = @ + 1]
      BY <1>3 DEF Environment, Connect, Disconnect, Announce, AnswerAttributes, AnswerChunk, Tick
    <3>2. download \in Download
      BY DEF BootInv, DownloadInv, TypeOK, DownloadType
    <3> QED BY <3>1, <3>2 DEF Download
  <2> QED BY <1>1, <1>2, <2>1, <2>2, QuietInv
<1>4. CASE OnConnected
  BY <1>1, <1>2, <1>4, QuietInv DEF OnConnected, writer
<1>5. CASE OnDisconnected
  BY <1>1, <1>5, TimedOutBoot DEF OnDisconnected
<1>6. CASE OnAttributes
  <2>1. ~rebooting /\ UNCHANGED <<flash, boot, running, announced, rebooting, fwupdate, download>>
    BY <1>6 DEF OnAttributes, Receive, Running, RestartsFirst, writer
  <2> QED BY <1>1, <2>1, QuietInv
<1>7. CASE OnChunkCheckTimeout
  BY <1>1, <1>7, TimedOutBoot DEF OnChunkCheckTimeout
<1>8. CASE tbcmh_otaupdate_subscribe
  BY <1>1, <1>2, <1>8, QuietInv DEF tbcmh_otaupdate_subscribe
<1>9. CASE tbcmh_otaupdate_unsubscribe
  <2>1. UNCHANGED <<flash, boot, running, announced, rebooting, notify, fwupdate>>
    BY <1>9 DEF tbcmh_otaupdate_unsubscribe, writer
  <2>2. download' = NoDownload \/ download' = download
    BY <1>9 DEF tbcmh_otaupdate_unsubscribe
  <2> QED BY <1>1, <1>2, <2>1, <2>2, NoDownloadIs, QuietInv
<1>10. CASE UNCHANGED vars
  BY <1>1, <1>2, <1>10, QuietInv DEF vars, writer
<1> QED BY <1>3, <1>4, <1>5, <1>6, <1>7, <1>8, <1>9, <1>10, NegotiateBoot, OnChunkDataBoot, RestartBoot
        DEF Next, Run

\* If the application restarts before it handles further events, the boot
\* partition always holds the firmware that was announced for it: for images
\* of any size, whatever chunks come and fail, and at every moment a crash
\* could come.
THEOREM BootStays ==
  ASSUME RestartsFirst
  PROVE  Spec => []BootIsAnnounced
<1>1. BootInv /\ [Next]_vars => BootInv'
  BY BootStep
<1>2. BootInv => BootIsAnnounced
  BY DEF BootInv
<1> QED BY <1>1, <1>2, BootInit, PTL DEF Spec
=============================================================================
