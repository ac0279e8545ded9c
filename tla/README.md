# A formal model of CanChat

CanChat is a chat server written in C++ on oatpp's asynchronous API
(`src/server/src`) with a web page as its client (`src/front/chat`).  This
directory holds TLA+ specifications of its core, TLC configurations that check
them on small instances, and proofs, checked by TLAPS, that the most important
invariants hold for every value of the constants.

Every definition follows the source.  Names from the code are kept
(`m_peerById`, `provideFileChunk`, `updateParticipants`), the file
`PROJECT.json` maps each definition to its lines, and the comment above a
definition says what it stands for when the name does not.

## 1. The system

| component | files | state it keeps | operations that change it |
|---|---|---|---|
| Lobby | `rooms/Lobby.*` | `m_rooms` (name to Room, under `m_roomsMutex`), `m_peerIdCounter` (atomic) | `getOrCreateRoom`, `deleteRoom`, `obtainNewPeerId`, the socket callbacks `onAfterCreate_NonBlocking` and `onBeforeDestroy_NonBlocking`, `runPingLoop` (a thread of its own) |
| Room | `rooms/Room.*` | `m_peerById` (`m_peerByIdLock`), `m_fileById` and `m_fileIdCounter` (`m_fileByIdLock`), `m_history` (`m_historyLock`) | `addPeer`, `welcomePeer`, `onboardPeer`, `goodbyePeer`, `removePeerById`, `addHistoryMessage`, `shareFile`, `sendMessageAsync`, `pingAllPeers` |
| Peer | `rooms/Peer.*` | `m_socket`, `m_messageBuffer`, `m_writeLock` (asynchronous), `m_pingPoingCounter` (atomic), `m_files` | `readMessage`, `handleMessage` and its cases, `onApiError`, `sendMessageAsync`, `sendPingAsync`, `onPong`, `invalidateSocket` |
| File, Subscriber | `rooms/File.*` | `m_subscribers` (`m_subscribersLock`); `m_chunk`, `m_valid`, `m_progress`, `m_waitList` (`m_chunkLock`) | `subscribe`, `unsubscribe`, `provideFileChunk`, `clearSubscribers`, `readChunk`, `requestChunk`, `waitForChunkAsync`, `onNewItem` |
| File controller | `controller/FileController.hpp` | none of its own | `GetFile`: looks the Room and the File up, subscribes, answers with a body that is read chunk by chunk |
| Chat page | `front/chat/chat.js` | `peersMap`, `peerId`, the participants in the document, `filesMap` | `onMessage`, `updateParticipants`, `onclose`, `sendFileChunks` |
| Statistics | `utils/Statistics.*` | nine atomic counters, `m_dataPoints` (`m_dataLock`) | `takeSample` (called by `runStatLoop`, a thread of its own), `getJsonData` |
| Configuration, interceptor, pages | `dto/Config.hpp`, `AppComponent.hpp`, `controller/StaticController.hpp`, `RoomsController.hpp`, `front/*.html` | the component `appConfig`, set once; in the browser a tab's URL and request | `intercept`, the endpoints `Root`, `ChatHTML`, `ChatJS`, `WS` |
| Nicknames, DTOs, start-up | the rest of `server/src` | none | stateless |

How they meet:

- *Executor threads.*  A websocket's handlers run as coroutines on a pool of
  threads.  For one connection they are sequential: `onAfterCreate`, the read
  coroutine, `onBeforeDestroy`.  Handlers of different connections run at the
  same time and meet in the Lobby's and the Rooms' mutexes.
- *Frames.*  `Peer::sendMessageAsync` starts a coroutine for each frame; the
  coroutines queue on `m_writeLock` in whatever order the pool runs them.
- *The ping loop* holds `m_roomsMutex` over a pass, takes each Room's
  `m_peerByIdLock` inside, counts a ping for each peer and drops the silent
  ones by invalidating their sockets; the read coroutine of such a socket then
  fails and leads to `onBeforeDestroy`.
- *A download* is a coroutine of the HTTP server.  It asks the host peer for
  one chunk over that peer's websocket and suspends; the host's read coroutine
  hands the chunk in and wakes it.  When the host leaves, `removePeerById`
  invalidates all subscribers of its files.
- *The page* handles one event at a time; CODE_INFO carries a copy of the
  members and the history, which the page replays through the same handler as
  live messages.

What makes the code hard to test: check-then-act over several locks
(`isEmpty` / `deleteRoom`; lookup / `subscribe`; copy of the map / INFO), two
nested locks in opposite order, a joiner between "history" and "live stream",
frames that overtake each other, a client that vanishes while bytes are being
written to it, the suspension protocol of a download, elements that stay in the
document while they fade out, and a clock that can be set.  `PROJECT.json`
lists 35 such hazards, each at its line with the properties that cover it; for
four of them no property is worth stating and a note says why.

### What makes each component correct

- **Lobby**: a Room's map holds exactly those who entered and have not left; a
  Room that everybody has left is unregistered and never left registered with
  nobody to do it; a silent client is dropped; there is one Room per name.
- **Room, messages**: a joiner misses nothing that happened after the oldest
  message of its history; every member is known; a peer that left is not shown.
- **Room, files**: the files that can be looked up are those of the members, and
  what the Room was told of is what was registered; every handler gets its locks.
- **Life times**: who has left is freed once nothing writes to him any more, and
  so is a Room that everybody has left, except for the circle between a Peer and
  its Files.
- **File transfer**: the downloader sees a prefix of the file, whole if the
  response ends normally; at most one chunk is under way; no wakeup is lost;
  every download ends.
- **Peer**: messages are assembled whole; only silent clients are dropped and
  all of those are; a refused peer leaves; nobody keeps the write lock; no
  broadcast uses a socket that another thread has reset.
- **Site**: whatever name and port a visitor used, one redirect brings him to a
  page whose own requests, the websocket too, are never redirected.
- **Page**: the list shows `peersMap`, and the merge that updates it never runs
  off the end of its input.
- **Statistics**: a bounded history in which no counter falls, and nothing is
  left out.

## 2. Modules

| module | models | composed with |
|---|---|---|
| `Lobby` | registry, life cycle of a connection, membership, ping loop | |
| `Room` | one Room's broadcasts and history, and the participants each browser ends up with | uses unique ids, which `LobbyProofs` proves |
| `Ownership` | who keeps whom alive: sockets, Peers, Files, Rooms, suspended coroutines | extends `Lobby` with the coroutines that hold a websocket or a File |
| `RoomFiles` | the three nested mutexes, the registered and the announced files | |
| `FileStream` | *abstract*: what a download promises its client | |
| `FileTransfer` | Subscriber, wait list, endpoint, host | `FileStream` through `INSTANCE ... WITH` |
| `Config` | host and port, the URLs made of them, the interceptor's comparison | |
| `Website` | a tab's way from any URL of the server to its websocket | extends `Config` |
| `WebDownload` | a tab that follows a file's link | extends `Website` and `FileTransfer` |
| `PeerSocket` | one Peer's read coroutine, socket pointer, ping counter and write lock | |
| `Participants` | the page's list of participants | takes INFO and presence messages as `Room` produces them |
| `Statistics` | sampling of the counters | |
| `LobbyProofs` (on `Ownership`), `RoomProofs`, `RoomFilesProofs`, `FileTransferProofs`, `WebsiteProofs` (also on `WebDownload`), `PeerSocketProofs`, `ParticipantsProofs`, `StatisticsProofs` | the theorems | each extends its module |
| `MC*` | model values and symmetry for TLC | each extends its module |

One step of a model is the code between two points where another thread can
come in: a stretch under a lock, or a whole handler of the page.  Control is
kept (each guard, early return and order of updates), data is reduced: a
message is what it says about whom, a chunk is an interval of byte numbers, a
frame its length, nicknames are numbers in the order of `cmpPeers`.

A definition whose comment starts with `Mutant:` is not part of the model.  It
is a version of the definition after it with a plausible bug; for every property
a run checks, `PROJECT.json` names one under which that property fails.

### Lobby

A connection goes through `pc`: *idle*, *entered* (has a Room and an id),
*member*, *removed*, *deleting* (its `isEmpty()` was true), *gone*.  `Enter` is
`getOrCreateRoom` with `obtainNewPeerId`; `LeaveRoom` is `invalidateSocket` and
the unlocked `isEmpty`; `DeleteRoom` erases by name whatever is registered by
then.  A Room object is named after the connection whose call created it, so a
name may be mapped to several Rooms over time.  `PingBegin`, `PingRoom`,
`PingEnd` are a pass of the ping loop; `getOrCreateRoom` and `DeleteRoom` wait
for it.  `Lose` is a client that vanishes without a close frame, `ShareFile`
a peer's first file.

### Ownership

`OwnSpec` runs `Lobby` together with what holds references on the executor.
`StartSend` is `sendMessageAsync` or `sendPingAsync`, which copy `m_socket` into
a coroutine (`Peer.cpp:38`, `67`); `EndSend` is the end of the last of them, which
may be long after `onBeforeDestroy` and need never come.  (The third such
coroutine, `SendErrorCoroutine` at line 108, is awaited by the read coroutine,
and has ended when `onBeforeDestroy` starts.)  `StartDownload` and `EndDownload`
are the `shared_ptr<File>` of `GetFile` and its Subscriber (`File.hpp:62`).

Reference counting is a function of that state: `Object` is all that was
created, `Rooted` what a coroutine, a download or `m_rooms` holds, `Refers` the
members that are `shared_ptr`s.  A set of objects is `KeptAlive` when each is
rooted or referred to from inside the set; what belongs to no such set is
`Freed`.  `LeaversFreed` also says that a Peer stays while a coroutine writes to
its websocket: the coroutines have a bare pointer to its `m_writeLock`.

### Room

Each handler is the sequence of its locked stretches: joining is
`WelcomeHistory`, `WelcomeSend`, `AddPeer`, `ListPeers`, `getHistory`,
`SendInfo`; talking `SayHistory`, `SaySend`; the end of a message that shares
files `ShareHistory`, `ShareSend`; leaving `RemovePeer`,
`GoodbyeHistory`, `GoodbyeSend`.  `Deliver` writes any waiting frame (the first
one only if `InOrder`) and runs the page's `onMessage` on it.  `sent`,
`evicted`, `excused` and `early` are history variables.

The page shows an announcement of files with `postSharedFile`, which reads
`peerId`; line 21 of `chat.js` declares `peedId` instead, so that before
CODE_INFO has assigned it the script fails (line 192) and nothing is shown
(`Fails`).  Those announcements are collected in `early`, and
`JoinerMissesNothing` excepts them.

### RoomFiles

Handlers that need one lock are one step, possible when the lock is free;
`shareFile`, `removePeerById` and `pingAllPeers` take their outer lock in a
step of its own (`ShareLock`, `RemoveLock`, `PingLock`) and the inner one in
the next.  A CODE_FILE_SHARE message with several files is handled one
`shareFile` at a time (`batch`), and `announced` is what the messages that
followed told the Room.

### FileTransfer and FileStream

A download's coroutine is *reading* (`readChunk` is next), *waiting*
(`WaitCoroutine::act`), *parking* (act chose to suspend, the wait list has not
got it yet), *parked*, or ended.  oatpp's wait list calls `onNewItem` after the
insertion, and the listener looks again: that closes the window between
`waitForChunk` and `Notified`.  `requests` and `replies` are what is on the way
to and from the host's browser; both are lost with its connection.

`FileStream` knows only a state and a body for each download: it may grow by
further bytes in order, complete when it is the whole file, or break.
`StreamsTheFile` says that the transfer implements it, with *open* for the four
active states.

### Config, Website and WebDownload

A URL is scheme, host and port; `Parsed` is what a browser makes of it (lower
case, the default port left out) and `HostHeader` what it sends back, which
`Redirects` compares with `getHostString`.  A tab visits any name and port of
the server, follows redirects up to the browser's limit, and loads what the page
asks for: `Root`, `OpenRoom`, `ChatHTML`, `ChatJS`, `WS`.  `SiteInit` has every
configuration that `AppComponent` accepts, from the environment or the command
line.  `WebDownload` lets a tab that has joined follow a file's link: the
request passes the interceptor and then is `FileTransfer!GetFile`.

### PeerSocket

Three activities: the read coroutine (`readData`, `readEnd`, `onPong`,
`handleMessage`, `onApiError`), the ping loop (`CountPing`, then `TestPing`,
since `onPong` may come between the two), and frames that wait for and hold
`m_writeLock` until the client's end takes the bytes or the connection is
invalidated.  What comes of a message is left open: it is handled, refused
(`onApiError`), or an exception ends the coroutine (`HandlerThrows`).  A browser
answers each ping once.  `Unanswered` counts a ping from the loop's test on, also
while it waits for `m_writeLock` and the client has not been asked: "silent" in
`OnlySilentDropped` is as loose as that.

`m_socket` is a plain `shared_ptr`.  `Send` tests it and `SendCopy` copies it;
the ping loop or `onBeforeDestroy` may reset it in between, on another thread.
That is a data race, whose outcomes are the old pointer and the new one: the
copy is taken before or after the reset.  A null copy ends the process when it
is used (*torn*).  A broadcast holds `m_peerByIdLock` over both, like those who
reset.  A request for a chunk, which goes to `m_host` directly, holds nothing, and
neither does `onboardPeer` when it sends INFO (`Room.cpp:73`) to a peer that is
in the map already.

### Participants

`page` is the state of the script.  A handler is one step; an exception in it
leaves what it had done so far.  `updateParticipants` walks through the sorted
peers once (`Merge`, a fold), with the children that are left, and at each peer
`MergePeer` does what the two nested loops of the code do at it: skip oneself,
meet a child, insert before one, append.  The loops' index runs past the end in
the code when a child is left and no peer: that is the error of `Merge`.  What a
filter or a sort selects is a sequence of places in an order (`Places`), since
proofs need it in that form.  A child that is removed stays among the children
until `TransitionEnd`.  INFO and presence messages come in any order, a live
join and a live leave of a peer once each.

### Statistics

`TakePoint`, `LoadConnected` and `LoadDisconnected` are `takeSample`, which
holds `m_dataLock` throughout, with the counters growing in between.  Of the
nine counters two are kept, the two that are related.  `Tick` sets the clock to
any value, as `system_clock` may be set.  The loop that pops old points is its
result: the points from the first young enough one (`Oldest`) on.

## 3. Runs

All twelve runs together take about three minutes; `lobby` (184 046 states) and
`peer` (92 084) take less than a minute each, `room` (152 559) 6 s, `statistics` (321 000) and `page`
(43 892) 20 s, `files` (9 722) 7 s.

| run | bounds | shows |
|---|---|---|
| `lobby` (on `Ownership`) | 2 connections, 1 name, `MaxMissed` 2 | `RosterExact`, `RegisteredRoomHasKeeper`, `LeaversFreed`, `RoomsFreed`, `DesertedRoomUnregistered`, `LostMemberDropped` |
| `lobby_split` (violation) | 3 connections, 1 name | `OneRoomPerName` fails |
| `lobby_circle` (violation) | 2 connections, 1 name | `AbandonedRoomDestroyed` fails |
| `room` | 2 peers, history of 2, 2 messages or announcements of files, frames in any order | `JoinerMissesNothing`, `ReplayOmitsLeavers`, `KnowsEveryMember` |
| `room_ghost` (violation) | 2 peers, frames in order | `NoGhostParticipant` fails |
| `files` | 3 connections, 2 files | `RegisteredFilesExact`, `AnnouncedExact`, `OnlyAbbaBlocks` |
| `files_deadlock` (violation) | 3 connections, 1 file | `JoinerGetsRoom` fails |
| `transfer` (on `WebDownload`) | 2 tabs with a download each, 5 bytes in chunks of 2; ports 443, 8443 and one too large, a host name in two spellings and another one, 3 redirects | `AtMostOneChunk`, `WaiterIsServed`, `NoLostWakeup`, `StreamsTheFile`, `RegisteredDownloadEnds`; `PagesStayCanonical`, `RedirectEnds`, `RoomUrlJoins`, `LinkDeliversFile` |
| `peer` | messages up to 3 bytes in fragments up to 2, 2 frames on the way, 1 text waiting, counter up to 3 | `WholeMessages`, `CounterExact`, `BroadcastKeepsSocket`, `OnlySilentDropped`, `RefusedPeerLeaves`, `LostClientLeaves`, `WriteLockReleased` |
| `peer_refusal` (violation) | as `peer` | `RefusalIsAnswered` fails |
| `page` | 3 peers, 2 nicknames, replayed history of 2 | `MergeNeverFails`, `ListIsExact` |
| `statistics` | clock 0..6, period 4, push interval 2, 2 connections | `PointsBounded`, `JsonIsHistory`, `ConnectionsSampled` |

Every passing run also checks its module's `TypeOK`; the types of `Website` are
`SiteTypeOK`, which is proved.

Why the bounds are enough for the case in question:

- `lobby`: the races are between one joiner and one leaver, or two leavers, of
  one Room, and the ping loop.  The counter reaches 2: unanswered, and dropped.
  A second name gives a Room beside the first, which meets it only in the ping
  loop's pass; it was checked as well (711 856 states, more than five minutes).
  Three connections with one name are used where a third party has to notice.
  Life times are decided by who shared: two connections are enough for a Room
  with one sharer and one who is not.
- `room`: with two peers and up to six recorded messages a history of two is
  overrun again and again.  Three peers without chat messages were also checked
  (473 000 states).
- `transfer`: 5 bytes in buffers of 2 have a first, a middle and a short last
  chunk; two downloads share the subscribers and the host.  Of the ports one is
  the default of https, which browsers leave out, one is not, and one is refused;
  a redirect loop would need more than one redirect and three are allowed.
- `peer`: a message of 3 bytes takes two fragments and a fourth byte is refused;
  a counter of 3 is above every value a connected peer can have.
- `files`: the locks need a sharer, a leaver and a third connection that has to
  wait; two files make a message with several, or two messages of one or of two
  connections, and an id in use while the next is given.
- `page`: two nicknames among three peers give equal and different ones, two
  other peers a child to insert before or after, and a history of two a join
  that is followed by a leave.  Four peers with a history of one were also
  checked (three minutes).
- `statistics`: a clock of 7 values spans a period of two push intervals, so
  points are reused, pushed and pruned.

`CHECK_DEADLOCK FALSE` is set where the system comes to rest: when every
connection, each used once, is over.  In `RoomFiles` it also keeps TLC from
stopping at the deadlock that `files_deadlock` demonstrates with a property.

### Disagreements between the code and its documents

1. **A room can be split in two** (`lobby_split`).  `Lobby.cpp:105-107`
   tests `isEmpty()` and calls `deleteRoom` by name with no lock over both.  A
   connection that enters in between keeps a Room whose name is erased; the
   next one with this URL gets a new Room.  README.md:22-23 promises one unique
   URL to meet under.  Members of the first Room are not pinged any more either,
   since the ping loop walks `m_rooms`; this is why `LostMemberDropped` is
   stated for registered Rooms.
2. **A ghost among the participants** (`room_ghost`).  `onboardPeer` copies the
   members, gives the lock back, and sends the copy later.  A LEFT that is
   broadcast in between arrives before INFO, and INFO then lists the leaver
   for good.
3. **All joins can hang** (`files_deadlock`).  `shareFile` locks
   `m_fileByIdLock`, then `m_peerByIdLock`; `removePeerById` the other way
   round.  When two connections of a Room meet there, the ping loop blocks on
   `m_peerByIdLock` while it holds `m_roomsMutex`, so that `getOrCreateRoom`
   blocks for every room of the server.  `OnlyAbbaBlocks` shows that nothing
   else can: as long as the two outer locks are never held together, everyone
   gets a Room and leavers leave.  `RoomFilesDeadlockStays` is the proof that
   it is for good.
4. **A room's history is kept for good** (`lobby_circle`).  `Peer::m_files` and
   `File::m_host` (`Peer.hpp:66`) own each other and nothing clears either.  Once
   somebody has shared a file, his Peer is never destroyed, nor is the Room that
   it refers to: the Room loses its name, but the object and its history stay
   and EVENT_ROOM_DELETED is not counted.  README.md:27-28 says that Rooms "are
   automatically deleted when the last participant leaves the room.", and :31
   that the history is deleted with them.  `RoomsFreed`, checked and proved, is
   what does hold: a Room in which nobody shared a file is destroyed.
5. **A refusal can end the process** (`peer_refusal`).  `onApiError` passes
   `m_socket` on without a test.  After `invalidateSocket` by the ping loop it
   is null; a frame that is being handled then, and refused, is answered
   through it.

Three more that have no run of their own:

- **A download can wait for ever.**  `GetFile` looks the File up and subscribes
  later (`FileController.hpp:91-95`).  When the host is removed in between, the
  new Subscriber is valid, its request goes to a closed connection and nobody
  will invalidate it, although README.md:41 says that all of a host's sharing is
  canceled when he exits.  `FileTransfer` has this behaviour; the premise of
  `RegisteredDownloadEnds` excepts it and nothing else.
- **A file announcement can be lost.**  One that is recorded after a joiner's
  `getHistory` and arrives before its INFO is in no replay and fails in
  `postSharedFile` (`chat.js:192`): the joiner is never shown the file.  Without
  `early` in it `JoinerMissesNothing` is violated, after eleven states.
- **A host configured with capital letters is unreachable.**  Browsers send host
  names in lower case, and the interceptor compares them as they are: every
  request is redirected until the browser gives up.  `RedirectEnds` states it in
  its second case.

The data race on `m_socket` (`Peer.cpp:56`) is modelled with its outcomes.
`BroadcastKeepsSocket` states the half of the uses that the locks protect.  The
request for a chunk to a host that is leaving and INFO to a new peer that is
being dropped are the other half and can end the process.  No document says that it cannot, so there is no finding.

### Fairness

Only what the code's scheduling gives.  Clients need not do anything: no
fairness on sending, answering, closing, downloading or vanishing, except that a
connected browser answers requests for chunks (`sendFileChunks`), without which
no download can end.

- The executor goes on with every coroutine that can run: weak fairness for
  handlers in progress, for reads from an invalidated connection (they fail),
  and for writes the other end accepts.
- Locks: strong fairness for an acquisition whose lock is free again and again:
  `handler` in `Lobby`, whose `DeleteRoom` competes with the ping loop, as a
  whole, since a handler is a handful of steps and each connection has one;
  `handler(c)` in `RoomFiles`, for each connection, and `pingAllPeers`;
  `m_writeLock`, which oatpp hands to waiting coroutines in turn.
- The server answers a request, and a browser loads what a page needs and follows
  a redirect: weak fairness for the endpoints in `WebFairSpec`.  Nobody has to
  visit, to enter a room or to follow a link.
- The ping loop and the statistics loop are `while(true)` on threads of their
  own: weak fairness for their steps (`runPingLoop`, `PingLock`).  `runStatLoop`
  measures its wait with `system_clock`, so that setting the clock back makes a
  wait longer (`Statistics.cpp:85-93`); the wait itself is not modelled, and
  `ConnectionsSampled` presumes that the clock is not set back again and again.
- Nothing is assumed of coroutines that write: the client may never read.

## 4. Theorems

All proofs are checked by TLAPS to the last leaf.  They hold for any sets of
connections, peers, names and downloads, finite or not (the page's peers are
finitely many), any history length, file and buffer size; the only assumptions are the `ASSUME`s of the modules
(that model values such as `NoRoom` are not connections, that bounds are
natural numbers), which TLC evaluates in every run.

| theorem | property | the argument |
|---|---|---|
| `LobbyTypeCorrect` | `TypeOK` | |
| `LobbyRosterExact` | `RosterExact` | `removePeerById` erases by key, so it needs that ids in use are different; they are all below `m_peerIdCounter` and pairwise different |
| `LobbyNoNameLeaks` | `RegisteredRoomHasKeeper` | the invariant adds that a connection's Room is set exactly after it entered and that a registered Room's users came by its name; the last one to be removed finds the map empty |
| `OwnershipLeaversFreed` | `LeaversFreed` | a reset socket pointer and the end of all coroutines leave nothing that refers to the websocket, and then nothing but a File to the Peer; with a coroutine left, the set of websocket and Peer keeps itself alive |
| `OwnershipRoomsFreed` | `RoomsFreed` | the registry and Peers refer to a Room; of an abandoned Room without files the Peers are freed, and that it is not registered any more is `RegisteredRoomHasKeeper` |
| `RoomTypeCorrect` | `TypeOK` | with it, that the history stays within its length |
| `RoomJoinerMissesNothing` | `JoinerMissesNothing` | every message broadcast so far is in the history or evicted, or its sender is between recording and broadcasting; for each joiner it is seen, on the way, in its briefing, excused, or an announcement of files on which its script failed |
| `RoomKnowsEveryMember` | `KnowsEveryMember` | a departure is recorded before anyone is told of it (`Departed`) and nothing arrives that was not recorded (`FromHistory`), so a join that was shown stays shown; with `JoinerMissesNothing` |
| `RoomReplayOmitsLeavers` | `ReplayOmitsLeavers` | behind every join of a peer that is over the history has its departure (`LeftLast`), which a pop at the front keeps |
| `RoomFilesTypeCorrect` | `TypeOK` | |
| `RoomFilesExact` | `RegisteredFilesExact` | ids are below the counter and unique, and whoever shares is a member |
| `RoomFilesAnnounced` | `AnnouncedExact` | only one message of a connection is handled at a time, and what it has registered so far is its batch |
| `RoomFilesDeadlockStays` | | the holders of the two locks wait for each other (`LocksHeld` says who holds what), so neither lock is released; the ping loop waits for one of them with `m_roomsMutex`, without which nobody gets a Room |
| `TransferTypeCorrect` | `TypeOK` | the chunk on the way starts where the progress stands and ends within the file |
| `TransferAtMostOneChunk` | `AtMostOneChunk` | nothing is on the way for a download that is reading without a chunk |
| `TransferWaiterIsServed` | `WaiterIsServed` | as above, for those that wait |
| `TransferNoLostWakeup` | `NoLostWakeup` | `onNewItem` looks again after the insertion |
| `TransferStreamsTheFile` | `StreamsTheFile` | the body is the first `m_progress` bytes; each action maps to an action of `FileStream` or to a stutter |
| `ConfigUrlsAgree` | | for every configuration, the URL of a redirect and of the websocket, spelled by a browser, pass the interceptor if the host is lower case |
| `WebsiteTypeCorrect` | | `SiteTypeOK` |
| `WebsitePagesStayCanonical` | `PagesStayCanonical` | a page is served only under a URL that passes, and its requests are to that URL or to the websocket's |
| `WebsiteRedirectEnds` | `RedirectEnds` | after a redirect the request is to the canonical URL, which passes |
| `WebImplementsTransfer` | | a step of `WebDownload` is one of the site, one of the transfer, or the click on a link or its answer, which are steps of the transfer or none; so every theorem about the transfer holds of downloads that come from the pages (`WebTransferSafe`, `WebStreamsTheFile`) |
| `WebTransferSafe` | `TypeOK`, `AtMostOneChunk`, `WaiterIsServed`, `NoLostWakeup` | from `WebImplementsTransfer` and the theorems about the transfer |
| `WebStreamsTheFile` | `StreamsTheFile` | likewise |
| `WebPagesStayCanonical` | `PagesStayCanonical` | the composition has requests that the site alone has not; the invariant of the site holds of them too |
| `WebRedirectEnds` | `RedirectEnds` | likewise |
| `WebLinkReachesFile` | | a tab that asks for a file has joined and has no download yet (`LinkInv`), since only the answer to its link starts one |
| `SocketTypeCorrect` | `TypeOK` | with it, that the message buffer stays within its limit |
| `SocketCounterExact` | `CounterExact` | there is one token at most: a ping being sent, or with the client, or its pong on the way |
| `SocketOnlySilentDropped` | `OnlySilentDropped` | the counter is exact at the moment of the test |
| `SocketWholeMessages` | `WholeMessages` | there is a function of the frames on the way, the bytes of the current message after each, that starts at the buffer and ends at what the client has composed; it takes the place of a sum |
| `SocketBroadcastKeeps` | `BroadcastKeepsSocket` | the ping loop and a broadcast exclude each other, and a leaver is removed first; INFO is sent before the read coroutine starts |
| `ParticipantsTypeCorrect` | `TypeOK` | also of what a handler leaves behind that ends with an exception; with it `NobodyTwice`: as long as no join overtakes its peer's leave, no peer is twice in `peersMap` or among the children |
| `ParticipantsMergeNeverFails` | `MergeNeverFails` | as long as no join overtakes its peer's leave: no peer or child is there twice, the children of listed peers are in the order of the sorted peers, and no listed peer is fading out (`Good`); the walk through the peers then meets every child (`Walked`) |
| `ParticipantsListIsExact` | `ListIsExact` | at the end of that walk the children of listed peers are the sorted peers but oneself; what is not listed is fading out |
| `StatisticsTypeCorrect` | `TypeOK` | |
| `StatisticsPointsBounded` | `PointsBounded` | the point just pushed is young enough, so the pop loop stops at a least index (`Least`, by well-foundedness of strict inclusion of finite sets) and what is left is the end of the points |
| `StatisticsJsonIsHistory` | `JsonIsHistory` | a point was loaded from counters that have not fallen since (`Loaded`), and neighbours are ordered as far as they are loaded (`Ordered`) |

None of these properties is inductive by itself.  Each proof module defines the
stronger invariant as a conjunction of named parts, proves for `Init` and for
each action that it is kept, one step per action, and concludes with the
temporal step.

Induction over data is out of the prover's reach as a rule of its own.  Where a
fold has to be followed (`Merge`, the replayed history), the proof gives the
function of its intermediate results (`FoldDefined`) and shows that its
invariant cannot fail at a least place: the least element of a set of numbers
(`Least`) takes the place of the induction.

Only model-checked: the liveness properties, `OnlyAbbaBlocks` among them (TLAPS
has no rules for `ENABLED`, on which fairness rests), and the violations.  Every
invariant and every action property of the runs is proved.

## 5. Not modelled

- **The checks on a list of files.**  `Peer.cpp:168` drops the result of
  `validateFilesList`.  In the models the outcome of all checks is given.
- **Pongs nobody asked for** (`Peer.cpp:294`).
- **Layout, wording, styles, the list of shared files and the typing indicator
  of the page.**  What a browser shows of the participants is `Participants`.
- **Nicknames** (`utils/Nickname.cpp`): three tables of words and a random
  choice from each, with no state; nobody relies on nicknames being different.
- **DTOs and codes**: declarations.  The messages are records of the modules that
  send them.
- **Start-up** (`App.cpp`): creates the components and starts the threads, which
  never end; the threads are the processes of the models.
- **Seven of the nine counters**: each is an atomic that is increased in one
  place.  One of them, `EVENT_PEER_ZOMBIE_DROPPED`, may count a peer more than
  once (`Room.cpp:196`); no line says that it counts peers.
- **Pings from clients** (`Peer::onPing`): browsers send none.
- **oatpp**: executor, wait list, asynchronous lock and websocket are modelled
  from how the code uses them.

## 6. Plan

Done, in this order: `Lobby`, `Room`, `FileTransfer` with `FileStream`,
`RoomFiles`, each with its proofs; `PeerSocket`, `Participants`, `Statistics`;
`Ownership` on `Lobby`; `Config`, `Website` and their composition with the
transfer in `WebDownload`; proofs for all of these, `Participants` included.

Next, most important first:

1. An abstract specification of a Room's membership as a client sees it, with
   `Lobby` shown to implement it as long as its name is not erased under it.
2. The page's files: `filesMap`, removal of a shared file, and requests for a
   file that is not shared any more.
