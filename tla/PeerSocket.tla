------------------------------ MODULE PeerSocket ------------------------------
(***************************************************************************)
(* One Peer and its websocket: Peer.cpp.                                   *)
(*                                                                         *)
(* The Peer starts in its Room's map, with onboardPeer about to send INFO. *)
(* Three kinds of activity meet here.  The read coroutine of the websocket *)
(* assembles messages, handles them and takes pongs.  The ping loop counts *)
(* pings and drops the peer.  Frames to the client are coroutines of their *)
(* own that take turns on m_writeLock, a lock that is held while the       *)
(* client's end accepts the bytes.                                         *)
(*                                                                         *)
(* A message is its size; what comes of it is left open: it is handled,    *)
(* refused, or an exception ends the coroutine.  (The JSON text "null",    *)
(* which no browser sends from this page, is left out.)                    *)
(*                                                                         *)
(* m_socket is a plain shared_ptr.  Who sends tests it and then copies it, *)
(* two steps in which another thread may reset it; a null pointer that is  *)
(* used ends the process.                                                  *)
(***************************************************************************)
EXTENDS Integers, Sequences

CONSTANTS MaxMessage,   \* AppConfig.maxMessageSizeBytes
          MaxFragment,  \* bound on the bytes of one call of readMessage
          MaxInbox,     \* bound on the client's frames on the way
          MaxTexts,     \* bound on text frames waiting to be written
          MaxCount      \* bound on m_pingPoingCounter

ASSUME PeerSocketAssumption ==
  /\ MaxMessage \in Nat /\ MaxFragment \in Nat \ {0} /\ MaxInbox \in Nat
  /\ MaxTexts \in Nat /\ MaxCount \in Nat

VARIABLES
  m_socket,            \* is Peer::m_socket set?
  m_messageBuffer,     \* position in Peer::m_messageBuffer
  m_pingPoingCounter,  \* Peer::m_pingPoingCounter
  m_writeLock,         \* the frame that holds it, "free" if none
  texts,               \* SendMessageCoroutines not yet finished
  sending,             \* between test and copy of m_socket: who sends, or "no"
  pings,               \* SendPingCoroutines not yet finished
  reader,              \* where the websocket's read coroutine is
  accepted,            \* does the message being handled pass every check?
  pinging,             \* is the ping loop between its ++ and its test?
  open,                \* is the connection neither closed nor invalidated?
  inbox,               \* the client's frames on the way
  composed,            \* bytes of the client's unfinished message
  asked,               \* pings the client has got and not answered
  lost                 \* has the client vanished without closing?

pingVars == <<m_pingPoingCounter, pinging, asked>>
writeVars == <<m_writeLock, texts, pings, sending>>
clientVars == <<inbox, composed, lost>>
socketVars == <<m_socket, open>>
readVars == <<m_messageBuffer, reader, accepted>>
vars == <<socketVars, readVars, pingVars, writeVars, clientVars>>

\* joining (until INFO is sent) -> reading -> handling -> reading, or ->
\* erroring (SendErrorCoroutine) -> failed (the coroutine ends) -> gone
\* (onBeforeDestroy done).  The process has ended with a null pointer: crashed,
\* in onApiError; torn, in a sender.
Reader == {"joining", "reading", "handling", "erroring", "failed", "gone",
           "crashed", "torn"}

Alive == reader \notin {"crashed", "torn"}

Frame == [type : {"data"}, size : 1..MaxFragment]
           \cup [type : {"end"}, size : Nat]
           \cup [type : {"pong"}]

Init ==
  /\ m_socket = TRUE /\ open = TRUE
  /\ m_messageBuffer = 0 /\ reader = "joining" /\ accepted = FALSE
  /\ m_pingPoingCounter = 0 /\ pinging = FALSE /\ asked = 0
  /\ m_writeLock = "free" /\ texts = 0 /\ pings = 0 /\ sending = "no"
  /\ inbox = << >> /\ composed = 0 /\ lost = FALSE

----------------------------------------------------------------------------
(* The client: a browser *)

ClientSends(frame) ==
  /\ open /\ ~lost /\ Len(inbox) < MaxInbox
  /\ inbox' = Append(inbox, frame)
  /\ UNCHANGED <<socketVars, readVars, writeVars, lost>>

SendData(n) ==
  /\ composed + n <= MaxMessage + MaxFragment
  /\ ClientSends([type |-> "data", size |-> n])
  /\ composed' = composed + n
  /\ UNCHANGED pingVars

SendEnd ==
  /\ composed > 0
  /\ ClientSends([type |-> "end", size |-> composed])
  /\ composed' = 0
  /\ UNCHANGED pingVars

\* A browser answers every ping with one pong.
SendPong ==
  /\ asked > 0
  /\ ClientSends([type |-> "pong"])
  /\ asked' = asked - 1
  /\ UNCHANGED <<composed, m_pingPoingCounter, pinging>>

\* It vanishes: what it has sent arrives, nothing more is sent or accepted.
Lose ==
  /\ ~lost /\ lost' = TRUE
  /\ UNCHANGED <<socketVars, readVars, pingVars, writeVars, inbox, composed>>

----------------------------------------------------------------------------
(* The read coroutine *)

\* The next frame is handed to the listener.
Receives(type) ==
  /\ reader = "reading" /\ open
  /\ inbox # << >> /\ Head(inbox).type = type
  /\ inbox' = Tail(inbox)
  /\ UNCHANGED <<socketVars, writeVars, composed, lost>>

\* Mutant: the limit is tested for each fragment alone.
readFragmentAlone ==
  LET size == Head(inbox).size
  IN  /\ Receives("data")
      /\ IF size > MaxMessage
         THEN /\ reader' = "handling" /\ accepted' = FALSE
              /\ UNCHANGED m_messageBuffer
         ELSE /\ m_messageBuffer' = m_messageBuffer + size
              /\ UNCHANGED <<reader, accepted>>
      /\ UNCHANGED pingVars

\* readMessage with data: "Message size exceeds max allowed size.", or the
\* data is kept.
readData ==
  LET size == Head(inbox).size
  IN  /\ Receives("data")
      /\ IF m_messageBuffer + size > MaxMessage
         THEN /\ reader' = "handling" /\ accepted' = FALSE
              /\ UNCHANGED m_messageBuffer
         ELSE /\ m_messageBuffer' = m_messageBuffer + size
              /\ UNCHANGED <<reader, accepted>>
      /\ UNCHANGED pingVars

\* Mutant: the buffer keeps the message.
readEndNoReset ==
  /\ Receives("end")
  /\ reader' = "handling"
  /\ accepted' \in BOOLEAN
  /\ UNCHANGED <<m_messageBuffer, pingVars>>

\* readMessage with size 0: the whole message is taken out and parsed; it may
\* be no JSON, and handleMessage may refuse it.
readEnd ==
  /\ Receives("end")
  /\ m_messageBuffer' = 0
  /\ reader' = "handling"
  /\ accepted' \in BOOLEAN
  /\ UNCHANGED pingVars

\* Mutant: the pong is not counted.
onPongIgnored ==
  /\ Receives("pong")
  /\ UNCHANGED <<readVars, pingVars>>

onPong ==
  /\ Receives("pong")
  /\ m_pingPoingCounter' = m_pingPoingCounter - 1
  /\ UNCHANGED <<readVars, pinging, asked>>

\* The ping loop holds m_peerByIdLock between its ++ and its test, a broadcast
\* while it goes through the members.
PeersLocked == pinging \/ sending = "broadcast"

\* sendMessageAsync in one go: one more coroutine, if the socket is still set.
sendMessageAsync ==
  /\ texts < MaxTexts
  /\ texts' = IF m_socket THEN texts + 1 ELSE texts
  /\ UNCHANGED <<socketVars, pingVars, m_writeLock, pings, sending, clientVars>>

\* handleMessage: a message that passes goes to the Room, which sends it to
\* its members, this one too, under m_peerByIdLock.  A chunk of a file goes to
\* a download.
handleMessage ==
  /\ reader = "handling" /\ accepted
  /\ reader' = "reading"
  /\ \/ ~PeersLocked /\ sendMessageAsync
     \/ UNCHANGED <<socketVars, pingVars, writeVars, clientVars>>
  /\ UNCHANGED <<m_messageBuffer, accepted>>

\* "File host not found." or "File chunk collision." is thrown through the
\* handler, and the read coroutine ends.
HandlerThrows ==
  /\ reader = "handling" /\ accepted
  /\ reader' = "failed"
  /\ UNCHANGED <<socketVars, m_messageBuffer, accepted, pingVars, writeVars,
                 clientVars>>

\* onApiError uses m_socket, which the ping loop may have reset by now.
onApiError ==
  /\ reader = "handling" /\ ~accepted
  /\ reader' = IF m_socket THEN "erroring" ELSE "crashed"
  /\ UNCHANGED <<socketVars, m_messageBuffer, accepted, pingVars, writeVars,
                 clientVars>>

\* The client closes, or a read from an invalidated connection fails.
ReadFails ==
  /\ reader = "reading"
  /\ reader' = "failed"
  /\ UNCHANGED <<socketVars, m_messageBuffer, accepted, pingVars, writeVars,
                 clientVars>>

\* Mutant: the socket is forgotten, its connection stays.
resetSocket ==
  m_socket' = FALSE /\ UNCHANGED open

invalidateSocket ==
  m_socket' = FALSE /\ open' = (open /\ ~m_socket)

\* Mutant: the socket is reset before the peer is removed from the Room.
LeaveUnremoved ==
  /\ reader = "failed"
  /\ reader' = "gone"
  /\ invalidateSocket
  /\ UNCHANGED <<m_messageBuffer, accepted, pingVars, writeVars, clientVars>>

\* onBeforeDestroy_NonBlocking: removePeerById waits for m_peerByIdLock, the
\* reset comes after it; nobody but this Peer's connection holds the websocket
\* afterwards.
Leave ==
  /\ reader = "failed" /\ ~PeersLocked
  /\ reader' = "gone"
  /\ invalidateSocket
  /\ UNCHANGED <<m_messageBuffer, accepted, pingVars, writeVars, clientVars>>

----------------------------------------------------------------------------
(* The ping loop, for a Peer in its Room's map: ++, then the test *)

CountPing ==
  /\ Alive /\ reader # "gone" /\ ~PeersLocked
  /\ m_pingPoingCounter < MaxCount
  /\ m_pingPoingCounter' = m_pingPoingCounter + 1
  /\ pinging' = TRUE
  /\ UNCHANGED <<socketVars, readVars, asked, writeVars, clientVars>>

\* Mutant: the test is written for the value before the increment.
TestOldCount ==
  /\ pinging /\ pinging' = FALSE /\ Alive
  /\ IF m_socket /\ m_pingPoingCounter = 0
     THEN pings' = pings + 1 /\ UNCHANGED socketVars
     ELSE invalidateSocket /\ UNCHANGED pings
  /\ UNCHANGED <<readVars, m_pingPoingCounter, asked, m_writeLock, texts,
                 sending, clientVars>>

\* The rest of sendPingAsync, and pingAllPeers with its result.
TestPing ==
  /\ pinging /\ pinging' = FALSE /\ Alive
  /\ IF m_socket /\ m_pingPoingCounter = 1
     THEN pings' = pings + 1 /\ UNCHANGED socketVars
     ELSE invalidateSocket /\ UNCHANGED pings
  /\ UNCHANGED <<readVars, m_pingPoingCounter, asked, m_writeLock, texts,
                 sending, clientVars>>

\* Another thread tests m_socket: for a broadcast, in the Room's map and
\* under its lock, for the request of a chunk, by the m_host of a File, or for
\* INFO, by onboardPeer; the last two hold no lock.
Send(who) ==
  /\ Alive /\ sending = "no" /\ m_socket /\ texts < MaxTexts
  /\ CASE who = "broadcast" -> ~pinging /\ reader # "gone"
       [] who = "request"   -> reader # "joining"
       [] who = "info"      -> reader = "joining"
  /\ sending' = who
  /\ UNCHANGED <<socketVars, readVars, pingVars, m_writeLock, texts, pings,
                 clientVars>>

\* It copies what m_socket is now and starts the coroutine, whose act() uses
\* the copy.  (A copy while the other thread is resetting it is one of both.)
\* With INFO sent the read coroutine starts.
SendCopy ==
  /\ Alive /\ sending # "no"
  /\ m_socket => texts < MaxTexts
  /\ sending' = "no"
  /\ texts' = IF m_socket THEN texts + 1 ELSE texts
  /\ reader' = IF ~m_socket THEN "torn"
               ELSE IF sending = "info" THEN "reading" ELSE reader
  /\ UNCHANGED <<socketVars, m_messageBuffer, accepted, pingVars, m_writeLock,
                 pings, clientVars>>

\* The ping loop has dropped the peer already, INFO is not sent.
SkipInfo ==
  /\ reader = "joining" /\ sending # "info" /\ ~m_socket
  /\ reader' = "reading"
  /\ UNCHANGED <<socketVars, m_messageBuffer, accepted, pingVars, writeVars,
                 clientVars>>

----------------------------------------------------------------------------
(* Writing frames, one at a time (oatpp::async::synchronize) *)

\* The frame kind waits for the lock, or is written.
Waiting(kind) ==
  CASE kind = "text"  -> texts > 0
    [] kind = "ping"  -> pings > 0
    [] kind = "error" -> reader = "erroring"

LockFor(kind) ==
  /\ m_writeLock = "free" /\ Waiting(kind) /\ Alive
  /\ m_writeLock' = kind
  /\ UNCHANGED <<socketVars, readVars, pingVars, texts, pings, sending,
                 clientVars>>

\* A write ends when the client takes the bytes, or with an error.
Ends(kind) ==
  /\ m_writeLock = kind /\ Alive
  /\ ~open \/ ~lost
  /\ m_writeLock' = "free"
  /\ UNCHANGED <<socketVars, m_messageBuffer, accepted, m_pingPoingCounter,
                 pinging, sending, clientVars>>

WriteText ==
  /\ Ends("text")
  /\ texts' = texts - 1
  /\ UNCHANGED <<reader, pings, asked>>

WritePing ==
  /\ Ends("ping")
  /\ pings' = pings - 1
  /\ asked' = IF open THEN asked + 1 ELSE asked
  /\ UNCHANGED <<reader, texts>>

\* Mutant: no async error after the close frame, reading goes on.
WriteErrorOnly ==
  /\ Ends("error")
  /\ reader' = "reading"
  /\ UNCHANGED <<texts, pings, asked>>

\* The error message and the close frame, then the async error.
WriteError ==
  /\ Ends("error")
  /\ reader' = "failed"
  /\ UNCHANGED <<texts, pings, asked>>

Next ==
  \/ \E n \in 1..MaxFragment : SendData(n)
  \/ SendEnd \/ SendPong \/ Lose
  \/ readData \/ readEnd \/ onPong
  \/ handleMessage \/ HandlerThrows \/ onApiError
  \/ ReadFails \/ Leave
  \/ CountPing \/ TestPing
  \/ \E who \in {"broadcast", "request", "info"} : Send(who)
  \/ SendCopy \/ SkipInfo
  \/ \E kind \in {"text", "ping", "error"} : LockFor(kind)
  \/ WriteText \/ WritePing \/ WriteError

Spec == Init /\ [][Next]_vars

\* The executor runs coroutines that can run and gives the write lock to each
\* of them in turn; the ping loop goes round.  Clients need not do anything.
Fairness ==
  /\ WF_vars(readData) /\ WF_vars(readEnd) /\ WF_vars(onPong)
  /\ WF_vars(handleMessage) /\ WF_vars(onApiError)
  /\ WF_vars(~open /\ ReadFails) /\ SF_vars(Leave)
  /\ WF_vars(CountPing) /\ WF_vars(TestPing) /\ WF_vars(SendCopy)
  /\ WF_vars(SkipInfo)
  /\ \A kind \in {"text", "ping", "error"} : SF_vars(LockFor(kind))
  /\ WF_vars(WriteText) /\ WF_vars(WritePing) /\ WF_vars(WriteError)

FairSpec == Spec /\ Fairness

----------------------------------------------------------------------------
(* Properties *)

\* Config.hpp:61 "Max size of the received bytes. (the whole MessageDto
\* structure).": the buffer never holds more, whatever the fragments are.
TypeOK ==
  /\ m_socket \in BOOLEAN /\ open \in BOOLEAN
  /\ m_messageBuffer \in 0..MaxMessage
  /\ m_pingPoingCounter \in 0..MaxCount
  /\ m_writeLock \in {"free", "text", "ping", "error"}
  /\ texts \in 0..MaxTexts /\ pings \in 0..1
  /\ reader \in Reader /\ accepted \in BOOLEAN /\ pinging \in BOOLEAN
  /\ sending \in {"no", "broadcast", "request", "info"}
  /\ inbox \in Seq(Frame) /\ composed \in Nat /\ asked \in 0..1
  /\ lost \in BOOLEAN

\* What handleMessage gets is one message of the client and all of it, in
\* however many fragments it came and with pongs between them.
WholeMessages ==
  (reader = "reading" /\ open /\ inbox # << >> /\ Head(inbox).type = "end")
    => m_messageBuffer = Head(inbox).size

Pongs == {i \in DOMAIN inbox : inbox[i].type = "pong"}

\* A ping has been sent that onPong has not counted; it may still be queued
\* behind m_writeLock, the client has not been asked then.
Unanswered == pings = 1 \/ asked = 1 \/ Pongs # {}

\* Peer.cpp:83-84 "Ping counter is increased on sending ping and decreased on
\* receiving pong": while the peer is connected the counter is the number of
\* unanswered pings, of which there is at most one, and the loop's own ++.
CounterExact ==
  (m_socket /\ open) =>
    m_pingPoingCounter = (IF Unanswered THEN 1 ELSE 0)
                           + (IF pinging THEN 1 ELSE 0)

\* Peer.hpp:110 "`false` peer has not responded to the last ping, it means we
\* have to disconnect him.": the loop drops no other peer, also when the pong
\* comes between its ++ and its test.
OnlySilentDropped ==
  [][(pinging /\ m_socket /\ ~m_socket') => Unanswered]_vars

\* A broadcast copies the socket that it tested: both happen under the lock
\* that the ping loop drops peers under, and before a leaver is removed.
\* Nothing protects the request of a chunk while its host is dropped or leaves,
\* nor INFO while the new peer is dropped: these two, and no other sender, can
\* come to copy a null pointer.
BroadcastKeepsSocket == sending = "broadcast" => m_socket

\* A vanished client is dropped, whatever the server was doing with it.
LostClientLeaves == lost ~> reader \in {"gone", "crashed", "torn"}

\* A client that takes no more bytes does not keep the write lock: the drop
\* invalidates the connection and ends the write.
WriteLockReleased == []<>(m_writeLock = "free" \/ ~Alive)

\* Peer.cpp:128 "async error after error message and close-frame are sent":
\* a peer whose message is refused leaves, also when the error message waits
\* for the write lock, or cannot be written because the client has vanished.
RefusedPeerLeaves ==
  (reader = "handling" /\ ~accepted) ~> reader \in {"gone", "crashed", "torn"}

\* Peer.cpp:125 "send error message, then close-frame": a refused message is
\* answered (and does not end the process instead).
RefusalIsAnswered == reader # "crashed"
=============================================================================
