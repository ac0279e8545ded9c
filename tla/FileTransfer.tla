---------------------------- MODULE FileTransfer ----------------------------
(***************************************************************************)
(* Downloading one shared file: File.cpp, FileController.hpp, the chunk    *)
(* half of Peer.cpp and sendFileChunks of chat.js.                         *)
(*                                                                         *)
(* A download is a coroutine of the HTTP server.  Its read callback copies *)
(* a chunk if there is one, else asks the host for one over the host's     *)
(* websocket and suspends on the subscriber's CoroutineWaitList.  The      *)
(* host's websocket coroutine hands chunks in and, when the host leaves,   *)
(* invalidates every subscriber.  A step is one stretch under m_chunkLock  *)
(* or m_subscribersLock; a chunk is the interval <<first, last>> of bytes. *)
(***************************************************************************)
EXTENDS Integers, Sequences

CONSTANTS Download,  \* GET requests, each with a Subscriber of its own
          FileSize,  \* File::m_fileSize
          BufSize,   \* the buffer of the response body (oatpp's, external)
          NoChunk    \* the null m_chunk

ASSUME TransferAssumption ==
  FileSize \in Nat /\ BufSize \in Nat \ {0} /\ NoChunk \notin Nat \X Nat

VARIABLES
  registered,     \* is the File in Room::m_fileById?
  m_subscribers,  \* File::m_subscribers
  m_valid,        \* Subscriber::m_valid
  m_progress,     \* Subscriber::m_progress
  m_chunk,        \* Subscriber::m_chunk
  pc,             \* where the download's coroutine is
  body,           \* bytes written to the HTTP response
  requests,       \* CODE_FILE_REQUEST_CHUNK on the way to the host
  replies,        \* CODE_FILE_CHUNK_DATA on the way to the server
  host            \* the host's connection: up, closing (over), removed

fileVars == <<registered, m_subscribers, host>>
chunkVars == <<m_valid, m_progress, m_chunk>>
netVars == <<requests, replies>>
vars == <<fileVars, chunkVars, pc, body, netVars>>

\* reading: readChunk is next.  waiting: WaitCoroutine::act is next.
\* parking: act chose the wait list.  parked: on the wait list.
Active == {"reading", "waiting", "parking", "parked"}
Ended == {"notfound", "complete", "failed", "aborted"}

Min(a, b) == IF a < b THEN a ELSE b

Init ==
  /\ registered = TRUE
  /\ m_subscribers = {}
  /\ m_valid = [d \in Download |-> FALSE]
  /\ m_progress = [d \in Download |-> 0]
  /\ m_chunk = [d \in Download |-> NoChunk]
  /\ pc = [d \in Download |-> "idle"]
  /\ body = [d \in Download |-> << >>]
  /\ requests = [d \in Download |-> << >>]
  /\ replies = [d \in Download |-> << >>]
  /\ host = "up"

----------------------------------------------------------------------------
(* FileController: the endpoint *)

Moves(d, from, to) == pc[d] = from /\ pc' = [pc EXCEPT ![d] = to]

\* getRoom and getFileById; a Room that is gone answers 404 like a File.
GetFile(d) ==
  /\ Moves(d, "idle", IF registered THEN "found" ELSE "notfound")
  /\ UNCHANGED <<fileVars, chunkVars, body, netVars>>

\* subscribe, some time after the lookup.
Subscribe(d) ==
  /\ Moves(d, "found", "reading")
  /\ m_subscribers' = m_subscribers \cup {d}
  /\ m_valid' = [m_valid EXCEPT ![d] = TRUE]
  /\ UNCHANGED <<registered, host, m_progress, m_chunk, body, netVars>>

----------------------------------------------------------------------------
(* Subscriber::readChunk *)

\* The response ends and ~Subscriber runs.
EndResponse(d, how) ==
  /\ Moves(d, "reading", how)
  /\ m_subscribers' = m_subscribers \ {d}
  /\ UNCHANGED <<registered, host, chunkVars, body, netVars>>

Size(c) == c[2] - c[1] + 1

\* "File is not valid any more.", "Invalid chunk size"
Throws(d) ==
  ~m_valid[d] \/ (m_progress[d] < FileSize /\ m_chunk[d] # NoChunk
                   /\ Size(m_chunk[d]) > BufSize)

ReadThrows(d) == Throws(d) /\ EndResponse(d, "failed")

ReadEnd(d) ==
  m_valid[d] /\ m_progress[d] >= FileSize /\ EndResponse(d, "complete")

\* Mutant: the progress counts what was asked for, not what came.
ReadWholeBuffer(d) ==
  LET c == m_chunk[d]
  IN  /\ pc[d] = "reading" /\ m_progress[d] < FileSize
      /\ c # NoChunk /\ ~Throws(d)
      /\ body' = [body EXCEPT ![d] = @ \o [i \in 1..Size(c) |-> c[1] + i - 1]]
      /\ m_progress' = [m_progress EXCEPT ![d] = @ + BufSize]
      /\ m_chunk' = [m_chunk EXCEPT ![d] = NoChunk]
      /\ UNCHANGED <<fileVars, m_valid, pc, netVars>>

\* Copy the chunk and write it to the response.
ReadChunk(d) ==
  LET c == m_chunk[d]
  IN  /\ pc[d] = "reading" /\ m_progress[d] < FileSize
      /\ c # NoChunk /\ ~Throws(d)
      /\ body' = [body EXCEPT ![d] = @ \o [i \in 1..Size(c) |-> c[1] + i - 1]]
      /\ m_progress' = [m_progress EXCEPT ![d] = @ + Size(c)]
      /\ m_chunk' = [m_chunk EXCEPT ![d] = NoChunk]
      /\ UNCHANGED <<fileVars, m_valid, pc, netVars>>

\* Ask the host; what is sent to a closed connection is lost.
requestChunk(d) ==
  /\ m_valid[d] /\ m_progress[d] < FileSize /\ m_chunk[d] = NoChunk
  /\ Moves(d, "reading", "waiting")
  /\ requests' = IF host = "up"
                 THEN [requests EXCEPT ![d] = Append(@, m_progress[d])]
                 ELSE requests
  /\ UNCHANGED <<fileVars, chunkVars, body, replies>>

\* The downloader is gone: the next write to the response fails.
Abort(d) == m_chunk[d] = NoChunk /\ EndResponse(d, "aborted")

----------------------------------------------------------------------------
(* Waiting for a chunk.  The wait list is oatpp's: a coroutine is put on   *)
(* it after act has returned and released m_chunkLock, then the listener   *)
(* looks again; a notified coroutine runs act once more.                   *)

Awake(d) == m_chunk[d] # NoChunk \/ ~m_valid[d]

\* Mutant: m_valid for !m_valid, the read is repeated before the chunk came.
waitInverted(d) ==
  /\ Moves(d, "waiting", IF m_chunk[d] # NoChunk \/ m_valid[d]
                          THEN "reading" ELSE "parking")
  /\ UNCHANGED <<fileVars, chunkVars, body, netVars>>

\* WaitCoroutine::act
waitForChunk(d) ==
  /\ Moves(d, "waiting", IF Awake(d) THEN "reading" ELSE "parking")
  /\ UNCHANGED <<fileVars, chunkVars, body, netVars>>

\* Mutant: the wait list has no listener.
onNewItemUnheard(d) ==
  /\ Moves(d, "parking", "parked")
  /\ UNCHANGED <<fileVars, chunkVars, body, netVars>>

\* WaitListListener::onNewItem, with the insertion before it.
onNewItem(d) ==
  /\ Moves(d, "parking", IF Awake(d) THEN "waiting" ELSE "parked")
  /\ UNCHANGED <<fileVars, chunkVars, body, netVars>>

\* m_waitList.notifyAll() of the subscribers D.
Notified(D) ==
  pc' = [d \in Download |-> IF d \in D /\ pc[d] = "parked" THEN "waiting"
                            ELSE pc[d]]

----------------------------------------------------------------------------
(* The host *)

\* Mutant: the slice is not cut off at the end of the file.
sendWholeSlice(d) ==
  /\ host = "up" /\ requests[d] # << >>
  /\ LET first == Head(requests[d])
     IN  replies' = [replies EXCEPT ![d] =
           Append(@, <<first + 1, first + BufSize>>)]
  /\ requests' = [requests EXCEPT ![d] = Tail(@)]
  /\ UNCHANGED <<fileVars, chunkVars, pc, body>>

\* chat.js: sendFileChunks slices the file, cut off at its end.
sendFileChunks(d) ==
  /\ host = "up" /\ requests[d] # << >>
  /\ LET first == Head(requests[d])
     IN  replies' = [replies EXCEPT ![d] =
           Append(@, <<first + 1, Min(first + BufSize, FileSize)>>)]
  /\ requests' = [requests EXCEPT ![d] = Tail(@)]
  /\ UNCHANGED <<fileVars, chunkVars, pc, body>>

\* Mutant: a chunk that comes before the reader is on the wait list is dropped.
provideToParked(d) ==
  /\ host = "up" /\ replies[d] # << >>
  /\ m_chunk' = IF registered /\ d \in m_subscribers /\ pc[d] = "parked"
                THEN [m_chunk EXCEPT ![d] = Head(replies[d])] ELSE m_chunk
  /\ Notified({d} \cap m_subscribers)
  /\ replies' = [replies EXCEPT ![d] = Tail(@)]
  /\ UNCHANGED <<fileVars, m_valid, m_progress, body, requests>>

\* File::provideFileChunk ignores a subscriber it does not know.
Taken(d) == registered /\ d \in m_subscribers

\* Subscriber::provideFileChunk: "File chunk collision."
Collides(d) == Taken(d) /\ m_chunk[d] # NoChunk

\* handleFileChunkMessage; a collision is thrown through the host's
\* connection and ends it.
provideFileChunk(d) ==
  /\ host = "up" /\ replies[d] # << >>
  /\ host' = IF Collides(d) THEN "closing" ELSE "up"
  /\ IF Taken(d) /\ ~Collides(d)
     THEN m_chunk' = [m_chunk EXCEPT ![d] = Head(replies[d])] /\ Notified({d})
     ELSE UNCHANGED <<m_chunk, pc>>
  /\ replies' = [replies EXCEPT ![d] = Tail(@)]
  /\ UNCHANGED <<registered, m_subscribers, m_valid, m_progress, body,
                 requests>>

\* The host leaves or is dropped; what is on the way to or from it is lost.
HostClose ==
  /\ host = "up"
  /\ host' = "closing"
  /\ requests' = [d \in Download |-> << >>]
  /\ replies' = [d \in Download |-> << >>]
  /\ UNCHANGED <<registered, m_subscribers, chunkVars, pc, body>>

\* Mutant: the subscribers are forgotten but not invalidated.
forgetSubscribers ==
  /\ host = "closing"
  /\ host' = "removed"
  /\ m_subscribers' = {}
  /\ registered' = FALSE
  /\ UNCHANGED <<chunkVars, pc, body, netVars>>

\* Subscriber::invalidate, for each of the subscribers D.
invalidate(D) ==
  /\ m_valid' = [d \in Download |-> m_valid[d] /\ d \notin D]
  /\ Notified(D)

\* removePeerById, under m_fileByIdLock: clearSubscribers, then erase.
clearSubscribers ==
  /\ host = "closing"
  /\ host' = "removed"
  /\ invalidate(m_subscribers)
  /\ m_subscribers' = {}
  /\ registered' = FALSE
  /\ UNCHANGED <<m_progress, m_chunk, body, netVars>>

Next ==
  \/ \E d \in Download :
       \/ GetFile(d) \/ Subscribe(d)
       \/ ReadThrows(d) \/ ReadEnd(d) \/ ReadChunk(d) \/ requestChunk(d)
       \/ Abort(d) \/ waitForChunk(d) \/ onNewItem(d)
       \/ sendFileChunks(d) \/ provideFileChunk(d)
  \/ HostClose \/ clearSubscribers

Spec == Init /\ [][Next]_vars

\* The executor runs every coroutine that is not on a wait list, a browser
\* answers while it is connected, and the end of a connection is handled.
\* Nobody has to download, to abort or to leave.
Fairness ==
  /\ \A d \in Download :
       /\ WF_vars(Subscribe(d)) /\ WF_vars(ReadThrows(d))
       /\ WF_vars(ReadEnd(d)) /\ WF_vars(ReadChunk(d))
       /\ WF_vars(requestChunk(d))
       /\ WF_vars(waitForChunk(d)) /\ WF_vars(onNewItem(d))
       /\ WF_vars(sendFileChunks(d)) /\ WF_vars(provideFileChunk(d))
  /\ WF_vars(clearSubscribers)

----------------------------------------------------------------------------
(* Properties *)

Chunk == {c \in (1..FileSize) \X (1..FileSize) : c[1] <= c[2]}

TypeOK ==
  /\ registered \in BOOLEAN
  /\ m_subscribers \subseteq Download
  /\ m_valid \in [Download -> BOOLEAN]
  /\ m_progress \in [Download -> 0..FileSize]
  /\ m_chunk \in [Download -> Chunk \cup {NoChunk}]
  /\ pc \in [Download -> {"idle", "found"} \cup Active \cup Ended]
  /\ body \in [Download -> Seq(1..FileSize)]
  /\ requests \in [Download -> Seq(0..FileSize)]
  /\ replies \in [Download -> Seq(Chunk)]
  /\ host \in {"up", "closing", "removed"}

Outstanding(d) ==
  Len(requests[d]) + Len(replies[d]) + IF m_chunk[d] = NoChunk THEN 0 ELSE 1

\* Chunk flow control: a download never has two chunks on the way, so
\* provideFileChunk meets an empty m_chunk and never throws through the
\* host's connection.
AtMostOneChunk == \A d \in Download : Outstanding(d) <= 1

\* A registered download that waits has its chunk on the way, unless the
\* host's connection is over and clearSubscribers still to come.
WaiterIsServed ==
  \A d \in m_subscribers :
    (pc[d] \in {"waiting", "parking", "parked"} /\ host = "up")
      => Outstanding(d) = 1

\* No wakeup is lost: a coroutine on the wait list has nothing to read, and
\* its subscriber is valid, however the chunk or the invalidation interleaves
\* with the suspension.
NoLostWakeup == \A d \in Download : pc[d] = "parked" => ~Awake(d)

\* A download as its client sees it.
StateOf(p) ==
  CASE p \in {"idle", "found"}     -> "none"
    [] p \in Active                -> "open"
    [] p = "notfound"              -> "refused"
    [] p = "complete"              -> "complete"
    [] p \in {"failed", "aborted"} -> "broken"

StreamState == [d \in Download |-> StateOf(pc[d])]

\* The downloader sees the stream FileStream promises.
Stream == INSTANCE FileStream WITH state <- StreamState

StreamsTheFile == Stream!Spec

\* README.md:41 "If host-peer exits the room, all of his file-sharing is
\* canceled.": a download that subscribed while the file was shared comes to an
\* end, whether the host serves it to the last byte or leaves in the middle.
\* (Not so a download that GetFile lets subscribe after the host was removed:
\* it may wait for ever, as the premise says.)
RegisteredDownloadEnds ==
  \A d \in Download : (registered /\ d \in m_subscribers) ~> pc[d] \in Ended
=============================================================================
